---- MODULE Spec2Model ----
(***************************************************************************)
(* Model of the finite-element assembly core of OpenCivil:                 *)
(*   core/solver/linear_static/assembler.py  (GlobalAssembler: K and P)    *)
(*   core/solver/modal/mass_assembler.py     (GlobalMassAssembler: M)      *)
(*                                                                         *)
(* Numbers.  The program computes in float64.  The model computes in exact *)
(* rational arithmetic: a number is a pair <<n, d>> in lowest terms with   *)
(* d > 0.  Every literal of the code (9.80665, 1e-5, 1e-8, 2.0, 12) keeps  *)
(* its exact value.  Rounding error is outside the model.                  *)
(* Strings that the code searches or upper-cases are sequences of          *)
(* one-character strings, so that upper(), == and "in" are computed as the *)
(* code computes them.                                                     *)
(* Local variables.  Bind(e, LAMBDA x : body) is "x = e; body": a local    *)
(* variable of the code, evaluated once and named as in the code.          *)
(***************************************************************************)
EXTENDS Integers, Sequences, FiniteSets, TLC

(***************************************************************************)
(* Exact rational arithmetic                                               *)
(***************************************************************************)
Abs(x) == IF x < 0 THEN -x ELSE x

RECURSIVE GCD(_, _)
GCD(a, b) == IF b = 0 THEN a ELSE GCD(b, a % b)

\* n/d with g = gcd(|n|, |d|), d # 0
Reduce(n, d, g) ==
    IF d < 0 THEN << -(n \div g), -(d \div g) >> ELSE << n \div g, d \div g >>
Norm(n, d) == IF n = 0 THEN <<0, 1>> ELSE Reduce(n, d, GCD(Abs(n), Abs(d)))

Q(n) == <<n, 1>>
Zero == <<0, 1>>
One == <<1, 1>>

\* a + b over the least common denominator, g = gcd(a[2], b[2])
AddOver(a, b, g) ==
    Norm(a[1] * (b[2] \div g) + b[1] * (a[2] \div g), (a[2] \div g) * b[2])
RAdd(a, b) ==
    IF a[2] = 1 /\ b[2] = 1 THEN << a[1] + b[1], 1 >> ELSE AddOver(a, b, GCD(a[2], b[2]))

RNeg(a) == << -a[1], a[2] >>
RSub(a, b) == RAdd(a, RNeg(b))

\* a * b, cross-reduced: g1 = gcd(|a[1]|, b[2]), g2 = gcd(|b[1]|, a[2])
MulOver(a, b, g1, g2) ==
    << (a[1] \div g1) * (b[1] \div g2), (a[2] \div g2) * (b[2] \div g1) >>
RMul(a, b) ==
    IF a[1] = 0 \/ b[1] = 0 THEN Zero
    ELSE IF a[2] = 1 /\ b[2] = 1 THEN << a[1] * b[1], 1 >>
    ELSE MulOver(a, b, GCD(Abs(a[1]), b[2]), GCD(Abs(b[1]), a[2]))

\* 1 / b and a / b, for b # 0
RInv(b) == IF b[1] < 0 THEN << -b[2], -b[1] >> ELSE << b[2], b[1] >>
RDiv(a, b) == RMul(a, RInv(b))

RAbs(a) == << Abs(a[1]), a[2] >>
\* a < b and a <= b: by the integer parts where they differ
RLt(a, b) ==
    IF a[1] \div a[2] # b[1] \div b[2] THEN a[1] \div a[2] < b[1] \div b[2]
    ELSE RSub(a, b)[1] < 0
RLe(a, b) ==
    IF a[1] \div a[2] # b[1] \div b[2] THEN a[1] \div a[2] < b[1] \div b[2]
    ELSE RSub(a, b)[1] <= 0

\* x = e; body
Bind(e, Body(_)) == CASE e = e -> Body(e)

(***************************************************************************)
(* Vectors and matrices: tuples, and tuples of row tuples.  Tab builds the  *)
(* tuple <<F(1), ..., F(n)>>.                                              *)
(***************************************************************************)
Tab(n, F(_)) == [i \in 1..n |-> F(i)] \o <<>>

\* F(1) + ... + F(n)
Sum(n, F(_)) ==
    LET s[lo \in 1..n, hi \in 1..n] ==
            IF lo = hi THEN F(lo)
            ELSE RAdd(s[lo, (lo + hi) \div 2], s[((lo + hi) \div 2) + 1, hi])
    IN  IF n = 0 THEN Zero ELSE s[1, n]

ZeroVec(n) == Tab(n, LAMBDA i : Zero)
ZeroMat(n, m) == Tab(n, LAMBDA i : ZeroVec(m))
Identity(n) == Tab(n, LAMBDA i : Tab(n, LAMBDA j : IF i = j THEN One ELSE Zero))

VecAdd(u, v) == Tab(Len(u), LAMBDA i : RAdd(u[i], v[i]))
VecSub(u, v) == Tab(Len(u), LAMBDA i : RSub(u[i], v[i]))
VecScale(u, s) == Tab(Len(u), LAMBDA i : RMul(u[i], s))

MatSub(A, B) == Tab(Len(A), LAMBDA i : VecSub(A[i], B[i]))
Transpose(A) == Tab(Len(A[1]), LAMBDA j : Tab(Len(A), LAMBDA i : A[i][j]))

\* sum over k of r[k] * v[k]
RowDot(r, v) == Sum(Len(r), LAMBDA k : RMul(r[k], v[k]))

MatVec(A, v) == Tab(Len(A), LAMBDA i : RowDot(A[i], v))

\* A @ Bt.T
MatMulT(A, Bt) == Tab(Len(A), LAMBDA i : Tab(Len(Bt), LAMBDA j : RowDot(A[i], Bt[j])))
MatMul(A, B) == Bind(Transpose(B), LAMBDA Bt : MatMulT(A, Bt))

\* A[rows, cols] for index tuples rows, cols (numpy's k[np.ix_(rows, cols)])
SubMat(A, rows, cols) ==
    Tab(Len(rows), LAMBDA i : Tab(Len(cols), LAMBDA j : A[rows[i]][cols[j]]))
SubVec(v, idx) == Tab(Len(idx), LAMBDA i : v[idx[i]])

\* 3-vector cross product (numpy.cross)
Cross(a, b) ==
    << RSub(RMul(a[2], b[3]), RMul(a[3], b[2])),
       RSub(RMul(a[3], b[1]), RMul(a[1], b[3])),
       RSub(RMul(a[1], b[2]), RMul(a[2], b[1])) >>

\* largest |entry| of a matrix (numpy.max(numpy.abs(k)))
MaxIn(S) == CHOOSE x \in S : \A y \in S : RLe(y, x)
MaxAbs(A) == MaxIn({ RAbs(A[i][j]) : i \in 1..Len(A), j \in 1..Len(A[1]) })

(***************************************************************************)
(* Gauss-Jordan elimination on an augmented matrix with n pivot columns.   *)
(* The result is the reduced matrix, or <<>> when a pivot column holds no  *)
(* nonzero entry: the matrix is exactly singular, the case in which        *)
(* numpy.linalg.inv and numpy.linalg.solve raise LinAlgError.              *)
(***************************************************************************)
PivotRows(M, n, c) == {r \in c..n : M[r][c][1] # 0}
FirstOf(S) == CHOOSE r \in S : \A q \in S : r <= q

\* rows c and p exchanged, the new row c scaled to a unit pivot
SwapScale(M, c, p) ==
    [M EXCEPT ![p] = M[c], ![c] = VecScale(M[p], RInv(M[p][c]))]

\* column c cleared in every row but c, whose pivot is one
Eliminate(M, c) ==
    Tab(Len(M), LAMBDA r :
        IF r = c \/ M[r][c][1] = 0 THEN M[r]
        ELSE VecSub(M[r], VecScale(M[c], M[r][c])))

RECURSIVE GaussJordan(_, _, _)
GaussJordan(M, n, c) ==
    IF c > n THEN M
    ELSE IF PivotRows(M, n, c) = {} THEN <<>>
    ELSE GaussJordan(Eliminate(SwapScale(M, c, FirstOf(PivotRows(M, n, c))), c), n, c + 1)

RightColumns(M, n) == Tab(Len(M), LAMBDA i : SubSeq(M[i], n + 1, Len(M[i])))
Augment(A, B) == Tab(Len(A), LAMBDA i : A[i] \o B[i])
ColumnOf(M, c) == Tab(Len(M), LAMBDA i : M[i][c])

(***************************************************************************)
(* Strings as character sequences                                          *)
(***************************************************************************)
LowerAlpha == << "a","b","c","d","e","f","g","h","i","j","k","l","m",
                 "n","o","p","q","r","s","t","u","v","w","x","y","z" >>
UpperAlpha == << "A","B","C","D","E","F","G","H","I","J","K","L","M",
                 "N","O","P","Q","R","S","T","U","V","W","X","Y","Z" >>

\* str.upper()
UpperChar(ch) ==
    IF \E k \in 1..Len(LowerAlpha) : LowerAlpha[k] = ch
    THEN UpperAlpha[CHOOSE k \in 1..Len(LowerAlpha) : LowerAlpha[k] = ch]
    ELSE ch
Upper(s) == Tab(Len(s), LAMBDA i : UpperChar(s[i]))

\* sub in s
Contains(s, sub) ==
    \E i \in 1..(Len(s) - Len(sub) + 1) : SubSeq(s, i, i + Len(sub) - 1) = sub

\* dict.get(key, default)
Get(rec, key, default) == IF key \in DOMAIN rec THEN rec[key] ELSE default

(***************************************************************************)
(* numpy.linalg.inv / solve inside try ... except LinAlgError:             *)
(* <<>> stands for the exception, otherwise the result.                    *)
(***************************************************************************)
TryInverse(A) ==
    Bind(GaussJordan(Augment(A, Identity(Len(A))), Len(A), 1), LAMBDA red :
        IF red = <<>> THEN <<>> ELSE RightColumns(red, Len(A)))

TrySolve(A, b) ==
    Bind(GaussJordan(Tab(Len(A), LAMBDA j : Append(A[j], b[j])), Len(A), 1), LAMBDA red :
        IF red = <<>> THEN <<>> ELSE ColumnOf(red, Len(A) + 1))

(***************************************************************************)
(* Element Model (element_library: an external collaborator of the         *)
(* assemblers).  The 12x12 local stiffness is the analytic Timoshenko /    *)
(* Euler-Bernoulli beam matrix; local DOF order per end is                 *)
(* [u1,u2,u3,r1,r2,r3] (positions 1..6 for end i, 7..12 for end j).        *)
(* A zero shear area means no shear deformation (phi = 0).                 *)
(***************************************************************************)
Twelve == Q(12)

ShearPhi(E, G, I, As, L) ==
    IF As[1] = 0 \/ G[1] = 0 THEN Zero
    ELSE RDiv(RMul(Twelve, RMul(E, I)), RMul(RMul(G, As), RMul(L, L)))

\* bending coefficients of one plane: 12EI/L^3(1+phi), 6EI/L^2(1+phi),
\* (4+phi)EI/L(1+phi), (2-phi)EI/L(1+phi)
Bend(E, G, I, As, L) ==
    Bind(ShearPhi(E, G, I, As, L), LAMBDA phi :
    Bind(RAdd(One, phi), LAMBDA den :
    Bind(RMul(E, I), LAMBDA EI :
        [ a |-> RDiv(RMul(Twelve, EI), RMul(RMul(RMul(L, L), L), den)),
          b |-> RDiv(RMul(Q(6), EI), RMul(RMul(L, L), den)),
          c |-> RDiv(RMul(RAdd(Q(4), phi), EI), RMul(L, den)),
          d |-> RDiv(RMul(RSub(Q(2), phi), EI), RMul(L, den)) ])))

\* entry (i, j), i <= j, of the beam matrix; z bends in the local 1-2 plane,
\* y in the local 1-3 plane
BeamEntry(ax, tor, z, y, i, j) ==
    CASE <<i, j>> = <<1, 1>> -> ax       [] <<i, j>> = <<1, 7>> -> RNeg(ax)
      [] <<i, j>> = <<7, 7>> -> ax
      [] <<i, j>> = <<4, 4>> -> tor      [] <<i, j>> = <<4, 10>> -> RNeg(tor)
      [] <<i, j>> = <<10, 10>> -> tor
      [] <<i, j>> = <<2, 2>> -> z.a      [] <<i, j>> = <<2, 6>> -> z.b
      [] <<i, j>> = <<2, 8>> -> RNeg(z.a) [] <<i, j>> = <<2, 12>> -> z.b
      [] <<i, j>> = <<6, 6>> -> z.c      [] <<i, j>> = <<6, 8>> -> RNeg(z.b)
      [] <<i, j>> = <<6, 12>> -> z.d     [] <<i, j>> = <<8, 8>> -> z.a
      [] <<i, j>> = <<8, 12>> -> RNeg(z.b) [] <<i, j>> = <<12, 12>> -> z.c
      [] <<i, j>> = <<3, 3>> -> y.a      [] <<i, j>> = <<3, 5>> -> RNeg(y.b)
      [] <<i, j>> = <<3, 9>> -> RNeg(y.a) [] <<i, j>> = <<3, 11>> -> RNeg(y.b)
      [] <<i, j>> = <<5, 5>> -> y.c      [] <<i, j>> = <<5, 9>> -> y.b
      [] <<i, j>> = <<5, 11>> -> y.d     [] <<i, j>> = <<9, 9>> -> y.a
      [] <<i, j>> = <<9, 11>> -> y.b     [] <<i, j>> = <<11, 11>> -> y.c
      [] OTHER -> Zero

get_local_stiffness_matrix(E, G, A, J, I22, I33, As2, As3, L, L_tor) ==
    Bind(RDiv(RMul(E, A), L), LAMBDA ax :
    Bind(RDiv(RMul(G, J), L_tor), LAMBDA tor :
    Bind(Bend(E, G, I33, As2, L), LAMBDA z :
    Bind(Bend(E, G, I22, As3, L), LAMBDA y :
        Tab(12, LAMBDA i : Tab(12, LAMBDA j :
            BeamEntry(ax, tor, z, y, IF i <= j THEN i ELSE j, IF i <= j THEN j ELSE i)))))))

(***************************************************************************)
(* Rotation of an axis-parallel member: rows are the local axes 1, 2, 3 in *)
(* global coordinates.  Local 1 runs from p1 to p2; local 2 is global +Z   *)
(* for a non-vertical member and global +X for a vertical one; local 3 is  *)
(* 1 x 2; beta (in quarter turns) rolls 2 and 3 about 1.                   *)
(***************************************************************************)
Sign(q) == IF q[1] > 0 THEN One ELSE IF q[1] < 0 THEN RNeg(One) ELSE Zero

get_rotation_matrix(p1, p2, beta) ==
    Bind(<< Sign(RSub(p2[1], p1[1])), Sign(RSub(p2[2], p1[2])), Sign(RSub(p2[3], p1[3])) >>,
         LAMBDA x1 :
    Bind(IF x1[3][1] # 0 THEN <<One, Zero, Zero>> ELSE <<Zero, Zero, One>>, LAMBDA y0 :
    Bind(Cross(x1, y0), LAMBDA z0 :
    Bind(IF beta % 4 = 0 THEN y0 ELSE IF beta % 4 = 1 THEN z0
         ELSE IF beta % 4 = 2 THEN VecScale(y0, RNeg(One)) ELSE VecScale(z0, RNeg(One)),
         LAMBDA y1 :
        << x1, y1, Cross(x1, y1) >>))))

\* The members the rotation above is defined for
AxisParallel(p1, p2) ==
    Cardinality({c \in 1..3 : p1[c] # p2[c]}) = 1

(***************************************************************************)
(* Eccentricity transform: the end displacement of a point at local offset *)
(* o from the node is u + r x o, the rotation is unchanged.                *)
(***************************************************************************)
Skew(o) ==
    << << Zero, o[3], RNeg(o[2]) >>,
       << RNeg(o[3]), Zero, o[1] >>,
       << o[2], RNeg(o[1]), Zero >> >>

\* entry (i, j) of the 6x6 block [[I, skew], [0, I]]
EccEntry(sk, i, j) ==
    IF i = j THEN One ELSE IF i <= 3 /\ j >= 4 THEN sk[i][j - 3] ELSE Zero

get_eccentricity_matrix(off_i, off_j) ==
    Bind(Skew(off_i), LAMBDA ski :
    Bind(Skew(off_j), LAMBDA skj :
        Tab(12, LAMBDA i : Tab(12, LAMBDA j :
            IF i <= 6 /\ j <= 6 THEN EccEntry(ski, i, j)
            ELSE IF i >= 7 /\ j >= 7 THEN EccEntry(skj, i - 6, j - 6) ELSE Zero))))

(***************************************************************************)
(* Data Model accessors (DataManager, an external collaborator).           *)
(* A data model d is a record                                              *)
(*   nodes        sequence of [id, coords]; the node index is position - 1 *)
(*   elements     sequence of element records                              *)
(*   loads        sequence of load records (raw["loads"])                  *)
(*   mass_sources the registry raw["mass_sources"]                         *)
(*   load_case    [patterns |-> sequence of <<pattern, scale>>]            *)
(***************************************************************************)
DofsPerNode == 6
total_dofs(d) == DofsPerNode * Len(d.nodes)

NodeIds(d) == {d.nodes[k].id : k \in 1..Len(d.nodes)}
node_id_to_idx(d) ==
    [id \in NodeIds(d) |-> (CHOOSE k \in 1..Len(d.nodes) : d.nodes[k].id = id) - 1]
NodeCoords(d, idx) == d.nodes[idx + 1].coords

LastOf(S) == CHOOSE k \in S : \A q \in S : k >= q

\* next((e for e in elements if e['id'] == element_id), None):
\* <<>> is None, <<e>> the first element with that id
FindElement(d, element_id) ==
    Bind({k \in 1..Len(d.elements) : d.elements[k].id = element_id}, LAMBDA hits :
        IF hits = {} THEN <<>> ELSE << d.elements[FirstOf(hits)] >>)

\* dict built from a sequence of <<key, value>> pairs: a later pair overwrites
DictKeys(pairs) == {pairs[k][1] : k \in 1..Len(pairs)}
DictGet(pairs, key) == pairs[LastOf({k \in 1..Len(pairs) : pairs[k][1] = key})][2]

\* any(releases[0]) or any(releases[1])
AnyRelease(el) ==
    \E e \in 1..2 : \E k \in 1..6 : el.releases[e][k]

\* indices (1-based, ascending) of rel_vec entries equal to flag
SelectIdx(rel_vec, flag) ==
    LET t[i \in 0..Len(rel_vec)] ==
            IF i = 0 THEN <<>>
            ELSE IF rel_vec[i] = flag THEN Append(t[i - 1], i) ELSE t[i - 1]
    IN  t[Len(rel_vec)]

\* position of i in the index tuple idx
Pos(idx, i) == CHOOSE r \in 1..Len(idx) : idx[r] = i

(***************************************************************************)
(* GlobalAssembler                                                         *)
(***************************************************************************)
PenaltyFactor == <<1, 100000000>>            \* 1e-8
RotDofs == {4, 5, 6, 10, 11, 12}             \* rot_dofs [3,4,5,9,10,11], 1-based

\* variant of _condense_matrix with the two index lists exchanged
\* (idx_k from "if r", idx_c from "if not r")
condense_matrix_swapped(k, releases) ==
    Bind(releases[1] \o releases[2], LAMBDA rel_vec :
    Bind(SelectIdx(rel_vec, TRUE), LAMBDA idx_k :
    Bind(SelectIdx(rel_vec, FALSE), LAMBDA idx_c :
        IF idx_c = <<>> THEN k
        ELSE
    Bind(TryInverse(SubMat(k, idx_c, idx_c)), LAMBDA K_cc_inv :
        IF K_cc_inv = <<>> THEN k
        ELSE
    Bind(MatMul(SubMat(k, idx_k, idx_c), K_cc_inv), LAMBDA K_rc_inv :
    Bind(MatSub(SubMat(k, idx_k, idx_k), MatMul(K_rc_inv, SubMat(k, idx_c, idx_k))),
         LAMBDA K_new_small :
    Bind(RMul(MaxAbs(k), PenaltyFactor), LAMBDA penalty :
        Tab(12, LAMBDA i : Tab(12, LAMBDA j :
            IF rel_vec[i] /\ rel_vec[j]
            THEN K_new_small[Pos(idx_k, i)][Pos(idx_k, j)]
            ELSE IF i = j /\ ~rel_vec[i] /\ i \in RotDofs THEN penalty ELSE Zero))
    )))))))

\* variant of _condense_matrix that returns k_final, still all zero, when K_cc is
\* singular
condense_matrix_singular_zero(k, releases) ==
    Bind(releases[1] \o releases[2], LAMBDA rel_vec :
    Bind(SelectIdx(rel_vec, FALSE), LAMBDA idx_k :
    Bind(SelectIdx(rel_vec, TRUE), LAMBDA idx_c :
        IF idx_c = <<>> THEN k
        ELSE
    Bind(TryInverse(SubMat(k, idx_c, idx_c)), LAMBDA K_cc_inv :
        IF K_cc_inv = <<>> THEN ZeroMat(12, 12)
        ELSE
    \* K_rr - K_rc @ K_cc_inv @ K_cr
    Bind(MatMul(SubMat(k, idx_k, idx_c), K_cc_inv), LAMBDA K_rc_inv :
    Bind(MatSub(SubMat(k, idx_k, idx_k), MatMul(K_rc_inv, SubMat(k, idx_c, idx_k))),
         LAMBDA K_new_small :
    Bind(RMul(MaxAbs(k), PenaltyFactor), LAMBDA penalty :
        Tab(12, LAMBDA i : Tab(12, LAMBDA j :
            IF ~rel_vec[i] /\ ~rel_vec[j]
            THEN K_new_small[Pos(idx_k, i)][Pos(idx_k, j)]
            ELSE IF i = j /\ rel_vec[i] /\ i \in RotDofs THEN penalty ELSE Zero))
    )))))))

\* variant of _condense_matrix that adds the penalty to every released DOF
condense_matrix_penalty_every_release(k, releases) ==
    Bind(releases[1] \o releases[2], LAMBDA rel_vec :
    Bind(SelectIdx(rel_vec, FALSE), LAMBDA idx_k :
    Bind(SelectIdx(rel_vec, TRUE), LAMBDA idx_c :
        IF idx_c = <<>> THEN k
        ELSE
    Bind(TryInverse(SubMat(k, idx_c, idx_c)), LAMBDA K_cc_inv :
        IF K_cc_inv = <<>> THEN k
        ELSE
    Bind(MatMul(SubMat(k, idx_k, idx_c), K_cc_inv), LAMBDA K_rc_inv :
    Bind(MatSub(SubMat(k, idx_k, idx_k), MatMul(K_rc_inv, SubMat(k, idx_c, idx_k))),
         LAMBDA K_new_small :
    Bind(RMul(MaxAbs(k), PenaltyFactor), LAMBDA penalty :
        Tab(12, LAMBDA i : Tab(12, LAMBDA j :
            IF ~rel_vec[i] /\ ~rel_vec[j]
            THEN K_new_small[Pos(idx_k, i)][Pos(idx_k, j)]
            ELSE IF i = j /\ rel_vec[i] THEN penalty ELSE Zero))
    )))))))

_condense_matrix(k, releases) ==
    Bind(releases[1] \o releases[2], LAMBDA rel_vec :
    Bind(SelectIdx(rel_vec, FALSE), LAMBDA idx_k :
    Bind(SelectIdx(rel_vec, TRUE), LAMBDA idx_c :
        IF idx_c = <<>> THEN k
        ELSE
    Bind(TryInverse(SubMat(k, idx_c, idx_c)), LAMBDA K_cc_inv :
        IF K_cc_inv = <<>> THEN k
        ELSE
    \* K_rr - K_rc @ K_cc_inv @ K_cr
    Bind(MatMul(SubMat(k, idx_k, idx_c), K_cc_inv), LAMBDA K_rc_inv :
    Bind(MatSub(SubMat(k, idx_k, idx_k), MatMul(K_rc_inv, SubMat(k, idx_c, idx_k))),
         LAMBDA K_new_small :
    Bind(RMul(MaxAbs(k), PenaltyFactor), LAMBDA penalty :
        Tab(12, LAMBDA i : Tab(12, LAMBDA j :
            IF ~rel_vec[i] /\ ~rel_vec[j]
            THEN K_new_small[Pos(idx_k, i)][Pos(idx_k, j)]
            ELSE IF i = j /\ rel_vec[i] /\ i \in RotDofs THEN penalty ELSE Zero))
    )))))))

\* T_rot: four copies of the 3x3 rotation on the diagonal
RotationBlock12(R) ==
    Tab(12, LAMBDA i : Tab(12, LAMBDA j :
        IF (i - 1) \div 3 = (j - 1) \div 3 THEN R[((i - 1) % 3) + 1][((j - 1) % 3) + 1]
        ELSE Zero))

\* local_off[0] += s
ShiftFirst(v, s) == [v EXCEPT ![1] = RAdd(@, s)]

\* T_total = T_ecc @ T_rot from a rotation and the element's offsets
TotalTransform(R_3x3, el) ==
    MatMul(get_eccentricity_matrix(
               ShiftFirst(MatVec(R_3x3, el.offsets[1]), Get(el, "end_off_i", Zero)),
               ShiftFirst(MatVec(R_3x3, el.offsets[2]), RNeg(Get(el, "end_off_j", Zero)))),
           RotationBlock12(R_3x3))

\* get_local_stiffness_matrix(E=mat['E'], ..., L=L_clear, L_tor=L_total)
ElementLocalStiffness(el) ==
    get_local_stiffness_matrix(el.material.E, el.material.G, el.section.A,
        el.section.J, el.section.I22, el.section.I33, el.section.As2,
        el.section.As3, el.L_clear, el.L_total)

\* rotation from the offset-adjusted end points p1_adj, p2_adj
AdjustedRotation(d, el) ==
    get_rotation_matrix(VecAdd(NodeCoords(d, el.node_indices[1]), el.offsets[1]),
                        VecAdd(NodeCoords(d, el.node_indices[2]), el.offsets[2]),
                        el.beta)

\* T_total of _build_stiffness
StiffnessTransform(d, el) == TotalTransform(AdjustedRotation(d, el), el)

\* k_global of one element
ElementGlobalStiffness(d, el) ==
    Bind(ElementLocalStiffness(el), LAMBDA k_raw :
    Bind(IF AnyRelease(el) THEN _condense_matrix(k_raw, el.releases) ELSE k_raw,
         LAMBDA k_local :
    Bind(StiffnessTransform(d, el), LAMBDA T_total :
    \* T_total.T @ k_local @ T_total
    Bind(MatMul(k_local, T_total), LAMBDA kT :
        MatMul(Transpose(T_total), kT)))))

\* K[r0:r0+6, c0:c0+6] += B[br:br+6, bc:bc+6]   (0-based offsets)
AddBlock(K, r0, c0, B, br, bc) ==
    Tab(Len(K), LAMBDA r :
        IF r > r0 /\ r <= r0 + 6
        THEN Tab(Len(K[r]), LAMBDA c :
                 IF c > c0 /\ c <= c0 + 6
                 THEN RAdd(K[r][c], B[r - r0 + br][c - c0 + bc]) ELSE K[r][c])
        ELSE K[r])

\* variant of ScatterStiffness that adds k_global[0:6, 6:12] to both
\* off-diagonal blocks
ScatterStiffness_upper_twice(K, k_global, idx_i, idx_j) ==
    Bind(idx_i * 6, LAMBDA start_i :
    Bind(idx_j * 6, LAMBDA start_j :
        AddBlock(AddBlock(AddBlock(AddBlock(K,
            start_i, start_i, k_global, 0, 0),
            start_i, start_j, k_global, 0, 6),
            start_j, start_i, k_global, 0, 6),
            start_j, start_j, k_global, 6, 6)))

ScatterStiffness(K, k_global, idx_i, idx_j) ==
    Bind(idx_i * 6, LAMBDA start_i :
    Bind(idx_j * 6, LAMBDA start_j :
        AddBlock(AddBlock(AddBlock(AddBlock(K,
            start_i, start_i, k_global, 0, 0),
            start_i, start_j, k_global, 0, 6),
            start_j, start_i, k_global, 6, 0),
            start_j, start_j, k_global, 6, 6)))

\* self.K after the first n elements of the loop, started from the accumulator K
RECURSIVE StiffnessLoop(_, _, _)
StiffnessLoop(d, K, n) ==
    IF n = 0 THEN K
    ELSE
    Bind(StiffnessLoop(d, K, n - 1), LAMBDA K_prev :
    Bind(ElementGlobalStiffness(d, d.elements[n]), LAMBDA k_global :
        ScatterStiffness(K_prev, k_global,
                         d.elements[n].node_indices[1], d.elements[n].node_indices[2])))

_build_stiffness(d, K) == StiffnessLoop(d, K, Len(d.elements))

(***************************************************************************)
(* _get_exact_fef_via_stiffness: the member as two sub-elements joined at  *)
(* the load point.  Called with 0 < a < L here: at a = 0 or a = L the      *)
(* Element Model is asked for a zero-length element.                       *)
(***************************************************************************)
\* variant of _get_exact_fef_via_stiffness with b = L instead of b = L - a
get_exact_fef_right_full_length(L, a, P_vec_local, mat, sec) ==
    IF L = Zero THEN ZeroVec(12)
    ELSE
    Bind(get_local_stiffness_matrix(mat.E, mat.G, sec.A, sec.J, sec.I22, sec.I33,
                                    sec.As2, sec.As3, a, a), LAMBDA k_left :
    Bind(get_local_stiffness_matrix(mat.E, mat.G, sec.A, sec.J, sec.I22, sec.I33,
                                    sec.As2, sec.As3, L, L),
         LAMBDA k_right :
    Bind(Tab(6, LAMBDA i : Tab(6, LAMBDA j : RAdd(k_left[i + 6][j + 6], k_right[i][j]))),
         LAMBDA K_mid :
    \* F_mid = [P_vec_local, 0, 0, 0]
    Bind(TrySolve(K_mid, P_vec_local \o ZeroVec(3)), LAMBDA U_mid :
        IF U_mid = <<>> THEN ZeroVec(12)
        ELSE Tab(6, LAMBDA i : RowDot(SubSeq(k_left[i], 7, 12), U_mid))
             \o Tab(6, LAMBDA i : RowDot(SubSeq(k_right[i + 6], 1, 6), U_mid))
    ))))

_get_exact_fef_via_stiffness(L, a, P_vec_local, mat, sec) ==
    IF L = Zero THEN ZeroVec(12)
    ELSE
    Bind(get_local_stiffness_matrix(mat.E, mat.G, sec.A, sec.J, sec.I22, sec.I33,
                                    sec.As2, sec.As3, a, a), LAMBDA k_left :
    \* b = L - a
    Bind(get_local_stiffness_matrix(mat.E, mat.G, sec.A, sec.J, sec.I22, sec.I33,
                                    sec.As2, sec.As3, RSub(L, a), RSub(L, a)),
         LAMBDA k_right :
    Bind(Tab(6, LAMBDA i : Tab(6, LAMBDA j : RAdd(k_left[i + 6][j + 6], k_right[i][j]))),
         LAMBDA K_mid :
    \* F_mid = [P_vec_local, 0, 0, 0]
    Bind(TrySolve(K_mid, P_vec_local \o ZeroVec(3)), LAMBDA U_mid :
        IF U_mid = <<>> THEN ZeroVec(12)
        ELSE Tab(6, LAMBDA i : RowDot(SubSeq(k_left[i], 7, 12), U_mid))
             \o Tab(6, LAMBDA i : RowDot(SubSeq(k_right[i + 6], 1, 6), U_mid))
    ))))

\* variant of _condense_fef without "fef_new[idx_c] = 0.0": the released entries
\* keep the forces of the input
condense_fef_keeps_released(k_local, fef_local, releases) ==
    Bind(releases[1] \o releases[2], LAMBDA rel_vec :
    Bind(SelectIdx(rel_vec, TRUE), LAMBDA idx_c :
    Bind(SelectIdx(rel_vec, FALSE), LAMBDA idx_k :
        IF idx_c = <<>> THEN fef_local
        ELSE
    Bind(TryInverse(SubMat(k_local, idx_c, idx_c)), LAMBDA K_cc_inv :
        IF K_cc_inv = <<>> THEN fef_local
        ELSE
    Bind(MatVec(K_cc_inv, SubVec(fef_local, idx_c)), LAMBDA U_c :
    Bind(VecSub(SubVec(fef_local, idx_k), MatVec(SubMat(k_local, idx_k, idx_c), U_c)),
         LAMBDA F_k_new :
        Tab(12, LAMBDA i : IF rel_vec[i] THEN fef_local[i] ELSE F_k_new[Pos(idx_k, i)])
    ))))))

_condense_fef(k_local, fef_local, releases) ==
    Bind(releases[1] \o releases[2], LAMBDA rel_vec :
    Bind(SelectIdx(rel_vec, TRUE), LAMBDA idx_c :
    Bind(SelectIdx(rel_vec, FALSE), LAMBDA idx_k :
        IF idx_c = <<>> THEN fef_local
        ELSE
    Bind(TryInverse(SubMat(k_local, idx_c, idx_c)), LAMBDA K_cc_inv :
        IF K_cc_inv = <<>> THEN fef_local
        ELSE
    \* F_k - K_kc @ (K_cc_inv @ F_c)
    Bind(MatVec(K_cc_inv, SubVec(fef_local, idx_c)), LAMBDA U_c :
    Bind(VecSub(SubVec(fef_local, idx_k), MatVec(SubMat(k_local, idx_k, idx_c), U_c)),
         LAMBDA F_k_new :
        Tab(12, LAMBDA i : IF rel_vec[i] THEN Zero ELSE F_k_new[Pos(idx_k, i)])
    ))))))

\* <<>> is (None, 0.0); otherwise <<[idx, sign]>> with idx in 1..3 for X, Y, Z
Str_GRAVITY == <<"G","R","A","V","I","T","Y">>
\* variant of _parse_load_direction without .upper()
parse_load_direction_case_sensitive(dir_str) ==
    Bind(dir_str, LAMBDA d :
        IF Contains(d, Str_GRAVITY) THEN << [idx |-> 3, sign |-> RNeg(One)] >>
        ELSE IF Contains(d, <<"X">>) \/ Contains(d, <<"1">>) THEN << [idx |-> 1, sign |-> One] >>
        ELSE IF Contains(d, <<"Y">>) \/ Contains(d, <<"2">>) THEN << [idx |-> 2, sign |-> One] >>
        ELSE IF Contains(d, <<"Z">>) \/ Contains(d, <<"3">>) THEN << [idx |-> 3, sign |-> One] >>
        ELSE <<>>)

_parse_load_direction(dir_str) ==
    Bind(Upper(dir_str), LAMBDA d :
        IF Contains(d, Str_GRAVITY) THEN << [idx |-> 3, sign |-> RNeg(One)] >>
        ELSE IF Contains(d, <<"X">>) \/ Contains(d, <<"1">>) THEN << [idx |-> 1, sign |-> One] >>
        ELSE IF Contains(d, <<"Y">>) \/ Contains(d, <<"2">>) THEN << [idx |-> 2, sign |-> One] >>
        ELSE IF Contains(d, <<"Z">>) \/ Contains(d, <<"3">>) THEN << [idx |-> 3, sign |-> One] >>
        ELSE <<>>)

\* exact square root of a rational that is a perfect square
SqrtExact(q) ==
    << CHOOSE r \in 0..q[1] : r * r = q[1], CHOOSE r \in 1..q[2] : r * r = q[2] >>

VerticalTol == <<1, 1000000000>>            \* 1e-9

\* np.sqrt(dx**2 + dy**2)
Hypot(dx, dy) ==
    IF dy = Zero THEN RAbs(dx)
    ELSE IF dx = Zero THEN RAbs(dy)
    ELSE SqrtExact(RAdd(RMul(dx, dx), RMul(dy, dy)))

\* variant of _apply_projection_factor with the factor L_total / L_horizontal
apply_projection_factor_inverse(w_local, p1, p2, L_total, coord_system) ==
    IF coord_system # "Global" THEN w_local
    ELSE
    Bind(RSub(p2[1], p1[1]), LAMBDA dx :
    Bind(RSub(p2[2], p1[2]), LAMBDA dy :
    Bind(Hypot(dx, dy), LAMBDA L_horizontal :
        IF RLt(L_horizontal, VerticalTol) THEN ZeroVec(3)
        ELSE IF RLt(L_total, VerticalTol) THEN w_local
        ELSE VecScale(w_local, RDiv(L_total, L_horizontal)))))

_apply_projection_factor(w_local, p1, p2, L_total, coord_system) ==
    IF coord_system # "Global" THEN w_local
    ELSE
    Bind(RSub(p2[1], p1[1]), LAMBDA dx :
    Bind(RSub(p2[2], p1[2]), LAMBDA dy :
    Bind(Hypot(dx, dy), LAMBDA L_horizontal :
        IF RLt(L_horizontal, VerticalTol) THEN ZeroVec(3)
        ELSE IF RLt(L_total, VerticalTol) THEN w_local
        ELSE VecScale(w_local, RDiv(L_horizontal, L_total)))))

(***************************************************************************)
(* _add_member_loads                                                       *)
(***************************************************************************)
\* active_patterns of _add_member_loads
ActivePatterns(d) == d.load_case.patterns

\* fef_local of a uniform load w_local on the clear length
DistributedFEF(w_local, L_clear) ==
    Bind(RNeg(RDiv(RMul(w_local[1], L_clear), Q(2))), LAMBDA fx :
    Bind(RNeg(RDiv(RMul(w_local[2], L_clear), Q(2))), LAMBDA fy :
    Bind(RNeg(RDiv(RMul(w_local[3], L_clear), Q(2))), LAMBDA fz :
    Bind(RDiv(RMul(w_local[2], RMul(L_clear, L_clear)), Twelve), LAMBDA my :
    Bind(RDiv(RMul(w_local[3], RMul(L_clear, L_clear)), Twelve), LAMBDA mz :
        << fx, fy, fz, Zero, mz, RNeg(my), fx, fy, fz, Zero, RNeg(mz), my >>)))))

\* w_local of a member_dist load
DistLocalLoad(load, scale, p1, p2, L_total, R_3x3) ==
    Bind(VecScale(<<load.wx, load.wy, load.wz>>, scale), LAMBDA w_defined :
    Bind(IF Get(load, "coord", "Global") = "Global" THEN MatVec(R_3x3, w_defined)
         ELSE w_defined, LAMBDA w_local :
        IF Get(load, "projected", FALSE)
        THEN _apply_projection_factor(w_local, p1, p2, L_total, Get(load, "coord", "Global"))
        ELSE w_local))

\* P_local of a member_point load whose direction parsed to (idx_dir, sign)
PointLocalLoad(load, scale, parsed, R_3x3) ==
    Bind(RMul(load.force, scale), LAMBDA P_val :
    Bind([ZeroVec(3) EXCEPT ![parsed.idx] = RMul(parsed.sign, P_val)], LAMBDA vec_defined :
    Bind(IF Contains(Upper(load.dir), Str_GRAVITY) THEN "Global"
         ELSE Get(load, "coord", "Global"), LAMBDA coord_sys :
        IF coord_sys = "Global" THEN MatVec(R_3x3, vec_defined) ELSE vec_defined)))

\* variant of a_dist that measures a from the node instead of from the end of
\* the rigid zone
a_dist_from_node(load, el, ri, rj) ==
    Bind(IF load.is_rel THEN RMul(load.dist, el.L_total) ELSE load.dist, LAMBDA dist_raw :
        IF RLe(ri, dist_raw) /\ RLe(dist_raw, RSub(el.L_total, rj))
        THEN << dist_raw >>
        ELSE <<>>)

\* a_dist of a member_point load, <<>> when the point is outside [ri, L_total - rj]
a_dist(load, el, ri, rj) ==
    Bind(IF load.is_rel THEN RMul(load.dist, el.L_total) ELSE load.dist, LAMBDA dist_raw :
        IF RLe(ri, dist_raw) /\ RLe(dist_raw, RSub(el.L_total, rj))
        THEN << RSub(dist_raw, ri) >>
        ELSE <<>>)

\* fef_local of a member_point load: left at zero when the point is outside
\* the clear span
PointFEF(load, el, P_local, ri, rj) ==
    Bind(a_dist(load, el, ri, rj), LAMBDA a :
        IF a = <<>> THEN ZeroVec(12)
        ELSE _get_exact_fef_via_stiffness(el.L_clear, a[1], P_local,
                                          el.material, el.section))

\* the six entries subtracted from fef_global at one end for the load on its
\* rigid zone of length r, centred at c0 along local 1; zero when r is not > 0
RigidEnd(R_3x3, w_local, r, c0, loc_off_insertion) ==
    IF RLt(Zero, r)
    THEN Bind(VecScale(w_local, r), LAMBDA F_rigid :
         Bind(VecAdd(<<c0, Zero, Zero>>, loc_off_insertion), LAMBDA centroid :
         Bind(Cross(centroid, F_rigid), LAMBDA M_rigid :
             MatVec(Transpose(R_3x3), F_rigid) \o MatVec(Transpose(R_3x3), M_rigid))))
    ELSE ZeroVec(6)

\* P[start:start+6] -= fef_global[from:from+6]   (0-based offsets)
SubtractRows(P, start, fef_global, from) ==
    Tab(Len(P), LAMBDA r :
        IF r > start /\ r <= start + 6 THEN RSub(P[r], fef_global[r - start + from])
        ELSE P[r])

\* the correction of fef_global for the load on the rigid end zones
RigidCorrection(load, el, R_3x3, w_local) ==
    IF load.type = "member_dist"
    THEN RigidEnd(R_3x3, w_local, Get(el, "end_off_i", Zero),
                  RDiv(Get(el, "end_off_i", Zero), Q(2)), MatVec(R_3x3, el.offsets[1]))
         \o RigidEnd(R_3x3, w_local, Get(el, "end_off_j", Zero),
                     RNeg(RDiv(Get(el, "end_off_j", Zero), Q(2))),
                     MatVec(R_3x3, el.offsets[2]))
    ELSE ZeroVec(12)

\* the body of the load loop for a member load on the element el it names,
\* with scale = active_patterns[load['pattern']]: P after the load
\* R_3x3 of _add_member_loads: from the end points p1, p2 as they are, without
\* the offsets
LoadRotation(d, el) ==
    get_rotation_matrix(NodeCoords(d, el.node_indices[1]),
                        NodeCoords(d, el.node_indices[2]), el.beta)

\* T_total of _add_member_loads
LoadTransform(d, el) == TotalTransform(LoadRotation(d, el), el)

ElementLoadStep(d, P, load, el, scale) ==
    Bind(LoadRotation(d, el), LAMBDA R_3x3 :
    Bind(IF load.type = "member_point" THEN _parse_load_direction(load.dir) ELSE <<>>,
         LAMBDA parsed :
        IF load.type = "member_point" /\ parsed = <<>> THEN P
        ELSE
    Bind(IF load.type = "member_dist"
         THEN DistLocalLoad(load, scale, NodeCoords(d, el.node_indices[1]),
                            NodeCoords(d, el.node_indices[2]), el.L_total, R_3x3)
         ELSE ZeroVec(3), LAMBDA w_vec_local_for_offset :
    Bind(IF load.type = "member_dist"
         THEN DistributedFEF(w_vec_local_for_offset, el.L_clear)
         ELSE PointFEF(load, el, PointLocalLoad(load, scale, parsed[1], R_3x3),
                       Get(el, "end_off_i", Zero), Get(el, "end_off_j", Zero)),
         LAMBDA fef_raw :
    \* k_raw = get_local_stiffness_matrix(..., L=L_clear, L_tor=L_total)
    Bind(IF AnyRelease(el)
         THEN _condense_fef(ElementLocalStiffness(el), fef_raw, el.releases)
         ELSE fef_raw, LAMBDA fef_local :
    Bind(TotalTransform(R_3x3, el), LAMBDA T_total :
    Bind(VecSub(MatVec(Transpose(T_total), fef_local),
                RigidCorrection(load, el, R_3x3, w_vec_local_for_offset)),
         LAMBDA fef_global :
        SubtractRows(SubtractRows(P, el.node_indices[1] * 6, fef_global, 0),
                     el.node_indices[2] * 6, fef_global, 6)
    )))))))

\* one iteration of the load loop: P after the load
MemberLoadStep(d, P, load) ==
    IF load.pattern \notin DictKeys(ActivePatterns(d)) THEN P
    ELSE IF load.type \notin {"member_dist", "member_point"} THEN P
    ELSE IF FindElement(d, load.element_id) = <<>> THEN P
    ELSE ElementLoadStep(d, P, load, FindElement(d, load.element_id)[1],
                         DictGet(ActivePatterns(d), load.pattern))

RECURSIVE MemberLoadLoop(_, _, _)
MemberLoadLoop(d, P, n) ==
    IF n = 0 THEN P
    ELSE Bind(MemberLoadLoop(d, P, n - 1), LAMBDA P_prev :
             MemberLoadStep(d, P_prev, d.loads[n]))

_add_member_loads(d, P) == MemberLoadLoop(d, P, Len(d.loads))

(***************************************************************************)
(* DataManager.build_load_vector (external): the nodal loads of the active *)
(* patterns, scaled, at the six DOFs of their node.                        *)
(***************************************************************************)
\* what a load adds to row r (1-based) of the nodal load vector
NodalContribution(d, load, r) ==
    IF load.type = "nodal" /\ load.pattern \in DictKeys(ActivePatterns(d))
       /\ load.node_id \in NodeIds(d)
    THEN Bind(node_id_to_idx(d)[load.node_id] * 6, LAMBDA start :
             IF r > start /\ r <= start + 6
             THEN RMul(<< Get(load, "fx", Zero), Get(load, "fy", Zero),
                          Get(load, "fz", Zero), Get(load, "mx", Zero),
                          Get(load, "my", Zero), Get(load, "mz", Zero) >>[r - start],
                       DictGet(ActivePatterns(d), load.pattern))
             ELSE Zero)
    ELSE Zero

build_load_vector(d) ==
    Tab(total_dofs(d), LAMBDA r :
        Sum(Len(d.loads), LAMBDA n : NodalContribution(d, d.loads[n], r)))

\* assemble_system: the accumulators (K, P) after the call
assemble_system(d, K, P) ==
    \* self.P += self.dm.build_load_vector()
    Bind(VecAdd(P, build_load_vector(d)), LAMBDA P_nodal :
        [ K |-> _build_stiffness(d, K),
          P |-> _add_member_loads(d, P_nodal) ])

(***************************************************************************)
(* GlobalMassAssembler                                                     *)
(* The registry raw["mass_sources"] is [kind, entries]: kind "list" with   *)
(* entries <<[def]>>, or kind "dict" with entries <<[key, def]>> in        *)
(* insertion order.                                                        *)
(***************************************************************************)
Gravity == <<196133, 20000>>                 \* g = 9.80665
MassTol == <<-1, 100000>>                    \* -1e-5
Str_Gravity == <<"G","r","a","v","i","t","y">>

\* <<>> is None, <<def>> the mass source found
\* variant of _find_mass_source in which "Default" goes to the first entry before
\* the names are compared
find_mass_source_default_first(d, name) ==
    Bind(d.mass_sources, LAMBDA sources :
    Bind(IF sources.kind = "list"
         THEN {k \in 1..Len(sources.entries) : sources.entries[k].def.name = name}
         ELSE {k \in 1..Len(sources.entries) : sources.entries[k].key = name},
         LAMBDA hits :
        IF name = "Default" /\ Len(sources.entries) > 0
        THEN << sources.entries[1].def >>
        ELSE IF sources.kind = "list" /\ hits # {}
        THEN << sources.entries[FirstOf(hits)].def >>
        ELSE IF sources.kind = "dict" /\ hits # {}
        THEN << sources.entries[LastOf(hits)].def >>
        ELSE <<>>))

_find_mass_source(d, name) ==
    Bind(d.mass_sources, LAMBDA sources :
    Bind(IF sources.kind = "list"
         THEN {k \in 1..Len(sources.entries) : sources.entries[k].def.name = name}
         ELSE {k \in 1..Len(sources.entries) : sources.entries[k].key = name},
         LAMBDA hits :
        IF sources.kind = "list" /\ hits # {} THEN << sources.entries[FirstOf(hits)].def >>
        ELSE IF sources.kind = "dict" /\ hits # {}
        THEN << sources.entries[LastOf(hits)].def >>
        ELSE IF name = "Default" /\ Len(sources.entries) > 0
        THEN << sources.entries[1].def >>
        ELSE <<>>))

\* M with inc[r] added to its diagonal entry r
\* variant of AddDiagonal that adds every increment of a node in the column of
\* the node's first DOF
AddDiagonal_first_column(M, inc) ==
    Tab(Len(M), LAMBDA r :
        IF inc[r] = Zero THEN M[r]
        ELSE [M[r] EXCEPT ![((r - 1) \div 6) * 6 + 1] = RAdd(@, inc[r])])

AddDiagonal(M, inc) ==
    Tab(Len(M), LAMBDA r :
        IF inc[r] = Zero THEN M[r] ELSE [M[r] EXCEPT ![r] = RAdd(@, inc[r])])

\* variant of ElementSelfMass that puts total_mass, not half of it, on each end
ElementSelfMass_unhalved(el, r) ==
    Bind(RMul(RMul(el.section.A, RDiv(el.material.rho, Gravity)), el.L_total),
         LAMBDA total_mass :
        RAdd(IF r > el.node_indices[1] * 6 /\ r <= el.node_indices[1] * 6 + 3
             THEN total_mass ELSE Zero,
             IF r > el.node_indices[2] * 6 /\ r <= el.node_indices[2] * 6 + 3
             THEN total_mass ELSE Zero))

\* the mass one element puts on DOF r (1-based): half_mass on each of the
\* three translational DOFs of each end node
ElementSelfMass(el, r) ==
    Bind(RDiv(el.material.rho, Gravity), LAMBDA mass_density :
    Bind(RMul(RMul(el.section.A, mass_density), el.L_total), LAMBDA total_mass :
    Bind(RDiv(total_mass, Q(2)), LAMBDA half_mass :
        RAdd(IF r > el.node_indices[1] * 6 /\ r <= el.node_indices[1] * 6 + 3
             THEN half_mass ELSE Zero,
             IF r > el.node_indices[2] * 6 /\ r <= el.node_indices[2] * 6 + 3
             THEN half_mass ELSE Zero))))

_add_element_self_mass(d, M) ==
    AddDiagonal(M, Tab(Len(M), LAMBDA r :
        Sum(Len(d.elements), LAMBDA n : ElementSelfMass(d.elements[n], r))))

\* active_patterns of _add_mass_from_net_loads, as <<pattern, scale>> pairs
MassActivePatterns(pattern_list) ==
    Tab(Len(pattern_list), LAMBDA k :
        IF pattern_list[k].kind = "list"
        THEN << pattern_list[k].item[1], pattern_list[k].item[2] >>
        ELSE << pattern_list[k].item.name, pattern_list[k].item.scale >>)

\* F_vec_global of a member_point load, before the pattern multiplier
MassPointForce(d, el, load) ==
    Bind(Get(load, "force", Zero), LAMBDA force :
    Bind(Get(load, "dir", Str_Gravity), LAMBDA direction :
    Bind(Get(load, "coord", "Global"), LAMBDA coord :
        IF direction = Str_Gravity THEN << Zero, Zero, RNeg(RAbs(force)) >>
        ELSE IF coord = "Global"
        THEN Bind(IF Contains(direction, <<"X">>) THEN 1
                  ELSE IF Contains(direction, <<"Y">>) THEN 2 ELSE 3, LAMBDA idx :
                 [ZeroVec(3) EXCEPT ![idx] = force])
        ELSE IF coord = "Local"
        THEN Bind(IF Contains(direction, <<"1">>) THEN 1
                  ELSE IF Contains(direction, <<"2">>) THEN 2 ELSE 3, LAMBDA idx :
                 MatVec(Transpose(AdjustedRotation(d, el)),
                        [ZeroVec(3) EXCEPT ![idx] = force]))
        ELSE ZeroVec(3))))

\* the load makes the loop raise KeyError: node_id_to_idx[load["node_id"]]
MassLoadRaises(d, active, load) ==
    /\ load.pattern \in DictKeys(active)
    /\ load.type = "nodal"
    /\ load.node_id \notin NodeIds(d)

\* what a member load adds at node n_idx: part_i if it is end i, part_j if end j
ShareAtNode(el, n_idx, part_i, part_j) ==
    VecAdd(IF el.node_indices[1] = n_idx THEN part_i ELSE ZeroVec(3),
           IF el.node_indices[2] = n_idx THEN part_j ELSE ZeroVec(3))

\* the three force components a load adds to F_accum at the node with index n_idx
MassLoadForce(d, active, load, n_idx) ==
    IF load.pattern \notin DictKeys(active) THEN ZeroVec(3)
    ELSE
    Bind(DictGet(active, load.pattern), LAMBDA multiplier :
        IF load.type = "nodal"
        THEN IF node_id_to_idx(d)[load.node_id] = n_idx
             THEN VecScale(<< Get(load, "fx", Zero), Get(load, "fy", Zero),
                              Get(load, "fz", Zero) >>, multiplier)
             ELSE ZeroVec(3)
        ELSE IF load.type \notin {"member_dist", "member_point"} THEN ZeroVec(3)
        ELSE
    Bind(FindElement(d, load.element_id), LAMBDA found :
        IF found = <<>> THEN ZeroVec(3)
        ELSE
    Bind(found[1], LAMBDA el :
        IF load.type = "member_dist"
        THEN
    Bind(<< Get(load, "wx", Zero), Get(load, "wy", Zero), Get(load, "wz", Zero) >>,
         LAMBDA w_vec :
    Bind(IF Get(load, "coord", "Global") = "Local"
         THEN MatVec(Transpose(AdjustedRotation(d, el)), w_vec) ELSE w_vec,
         LAMBDA w_global :
    Bind(VecScale(VecScale(w_global, el.L_total), multiplier), LAMBDA F_total :
        ShareAtNode(el, n_idx, VecScale(F_total, <<1, 2>>), VecScale(F_total, <<1, 2>>)))))
        ELSE
    Bind(VecScale(MassPointForce(d, el, load), multiplier), LAMBDA F_vec_global :
    Bind(IF ~Get(load, "is_rel", TRUE)
         THEN RDiv(Get(load, "dist", <<1, 2>>), el.L_total)
         ELSE Get(load, "dist", <<1, 2>>), LAMBDA dist :
        ShareAtNode(el, n_idx, VecScale(F_vec_global, RSub(One, dist)),
                    VecScale(F_vec_global, dist))))
    )))

\* F_accum after the load loop (no load raising)
NetForces(d, active) ==
    Tab(total_dofs(d), LAMBDA r :
        IF (r - 1) % 6 < 3
        THEN Sum(Len(d.loads), LAMBDA n :
                 MassLoadForce(d, active, d.loads[n], (r - 1) \div 6)[((r - 1) % 6) + 1])
        ELSE Zero)

\* variant of NetMass with the test "Fz_net < 0"
NetMass_no_tolerance(F_accum, r) ==
    Bind(F_accum[((r - 1) \div 6) * 6 + 3], LAMBDA Fz_net :
        IF (r - 1) % 6 < 3 /\ RLt(Fz_net, Zero)
        THEN RDiv(RAbs(Fz_net), Gravity) ELSE Zero)

\* variant of NetMass that converts every net force beyond the tolerance,
\* upward or downward, as -Fz_net / g
NetMass_signed(F_accum, r) ==
    Bind(F_accum[((r - 1) \div 6) * 6 + 3], LAMBDA Fz_net :
        IF (r - 1) % 6 < 3 /\ RLt(RNeg(RAbs(Fz_net)), MassTol)
        THEN RDiv(RNeg(Fz_net), Gravity) ELSE Zero)

\* the mass the conversion loop puts on DOF r (1-based)
NetMass(F_accum, r) ==
    Bind(F_accum[((r - 1) \div 6) * 6 + 3], LAMBDA Fz_net :
        IF (r - 1) % 6 < 3 /\ RLt(Fz_net, MassTol)
        THEN RDiv(RAbs(Fz_net), Gravity) ELSE Zero)

\* [status, M, F_accum] after _add_mass_from_net_loads
_add_mass_from_net_loads(d, M, pattern_list) ==
    Bind(MassActivePatterns(pattern_list), LAMBDA active_patterns :
        IF active_patterns = <<>>
        THEN [status |-> "ok", M |-> M, F_accum |-> ZeroVec(total_dofs(d))]
        ELSE IF \E n \in 1..Len(d.loads) : MassLoadRaises(d, active_patterns, d.loads[n])
        THEN [status |-> "KeyError", M |-> M, F_accum |-> ZeroVec(total_dofs(d))]
        ELSE
    Bind(NetForces(d, active_patterns), LAMBDA F_accum :
        [ status |-> "ok",
          M |-> AddDiagonal(M, Tab(Len(M), LAMBDA r : NetMass(F_accum, r))),
          F_accum |-> F_accum ]))

\* build_mass_matrix: [status, M (self.M after the call), M_pat (self.M when the
\* pattern stage began), F_accum]
build_mass_matrix(d, M, mass_source_name) ==
    Bind(_find_mass_source(d, mass_source_name), LAMBDA found :
        IF found = <<>>
        THEN [status |-> "not_found", M |-> M, M_pat |-> M,
              F_accum |-> ZeroVec(total_dofs(d))]
        ELSE
    Bind(found[1], LAMBDA ms_def :
    Bind(IF Get(ms_def, "include_self_mass", TRUE) THEN _add_element_self_mass(d, M) ELSE M,
         LAMBDA M_pat :
        IF Get(ms_def, "include_patterns", FALSE)
        THEN Bind(_add_mass_from_net_loads(d, M_pat, Get(ms_def, "load_patterns", <<>>)),
                  LAMBDA r :
                 [status |-> r.status, M |-> r.M, M_pat |-> M_pat, F_accum |-> r.F_accum])
        ELSE [status |-> "ok", M |-> M_pat, M_pat |-> M_pat,
              F_accum |-> ZeroVec(total_dofs(d))])))

(* The data models the assemblers are run on.                              *)
(* Three nodes; members are axis-parallel, so that rotations, lengths and  *)
(* projections are rational.  Lengths follow the Data Model's schema:      *)
(* L_total is the node-to-node distance, L_clear = L_total - ri - rj.      *)
(***************************************************************************)
V(a, b, c) == <<Q(a), Q(b), Q(c)>>
Half == <<1, 2>>

Nodes == << [id |-> 10, coords |-> V(0, 0, 0)],
            [id |-> 20, coords |-> V(2, 0, 0)],
            [id |-> 30, coords |-> V(2, 0, 2)] >>

NoEnd == <<FALSE, FALSE, FALSE, FALSE, FALSE, FALSE>>
NoRel == <<NoEnd, NoEnd>>
NoOffsets == <<V(0, 0, 0), V(0, 0, 0)>>

\* release patterns: flags [u1,u2,u3,r1,r2,r3] of end i and of end j
Rel(i, j) == << Tab(6, LAMBDA k : k \in i), Tab(6, LAMBDA k : k \in j) >>

Steel == [E |-> Q(6), G |-> Q(3), rho |-> Q(2)]
SecSlender == [A |-> Q(2), J |-> Q(1), I22 |-> Q(1), I33 |-> Q(2), As2 |-> Zero, As3 |-> Zero]
SecDeep == [A |-> Q(1), J |-> Q(1), I22 |-> Q(1), I33 |-> Q(1), As2 |-> Q(1), As3 |-> Q(2)]

NodeDistance(i, j) ==
    Bind(VecSub(Nodes[j + 1].coords, Nodes[i + 1].coords), LAMBDA dv :
        RAdd(RAbs(dv[1]), RAdd(RAbs(dv[2]), RAbs(dv[3]))))

Elem(id, i, j, sec, rel, offs, ri, rj, beta) ==
    [ id |-> id, node_indices |-> <<i, j>>, material |-> Steel, section |-> sec,
      L_total |-> NodeDistance(i, j),
      L_clear |-> RSub(RSub(NodeDistance(i, j), ri), rj),
      releases |-> rel, offsets |-> offs, beta |-> beta,
      end_off_i |-> ri, end_off_j |-> rj ]

Beam == Elem(1, 0, 1, SecSlender, NoRel, NoOffsets, Zero, Zero, 0)
Column == Elem(2, 1, 2, SecDeep, NoRel, NoOffsets, Zero, Zero, 1)
ColumnDown == Elem(3, 2, 1, SecSlender, NoRel, NoOffsets, Zero, Zero, 0)
\* raised insertion point and rigid end zones
BeamOffset == Elem(1, 0, 1, SecSlender, NoRel, <<V(0, 0, 1), V(0, 0, 1)>>, Half, Half, 0)
\* moment release r3 at end j
BeamPinned == Elem(1, 0, 1, SecSlender, Rel({}, {6}), NoOffsets, Zero, Zero, 0)
\* axial release at both ends: the released block is singular
BeamAxialFree == Elem(1, 0, 1, SecSlender, Rel({1}, {1}), NoOffsets, Zero, Zero, 0)

ElementConfigs ==
    { <<Beam>>, <<Beam, Column>>, <<Column, BeamOffset>>, <<BeamOffset, ColumnDown>>,
      <<BeamPinned, Column>>, <<BeamAxialFree, Column>> }

Str_X == <<"X">>
Str_y == <<"y">>
Str_2 == <<"2">>
Str_Q == <<"Q">>

Nodal(pat, node_id, fz) ==
    [pattern |-> pat, type |-> "nodal", node_id |-> node_id,
     fx |-> One, fy |-> Zero, fz |-> fz]
Dist(pat, element_id, w, coord, projected) ==
    [pattern |-> pat, type |-> "member_dist", element_id |-> element_id,
     wx |-> w[1], wy |-> w[2], wz |-> w[3], coord |-> coord, projected |-> projected]
Point(pat, element_id, force, dir, coord, dist, is_rel) ==
    [pattern |-> pat, type |-> "member_point", element_id |-> element_id,
     force |-> force, dir |-> dir, coord |-> coord, dist |-> dist, is_rel |-> is_rel]

NodalDown == Nodal("DEAD", 20, Q(-3))
NodalUp == Nodal("LIVE", 20, Q(3))
NodalAtTol == Nodal("DEAD", 10, <<-1, 100000>>)
NodalBelowTol == Nodal("DEAD", 10, <<-1, 200000>>)
NodalGhost == Nodal("DEAD", 99, Q(-3))
DistDown == Dist("DEAD", 1, V(0, 0, -2), "Global", FALSE)
DistProjected == Dist("DEAD", 1, V(0, 0, -2), "Global", TRUE)
DistColumnProjected == Dist("LIVE", 2, V(1, 0, -2), "Global", TRUE)
DistLocalProjected == Dist("DEAD", 1, V(0, -2, 0), "Local", TRUE)
DistGhost == Dist("DEAD", 77, V(0, 0, -2), "Global", FALSE)
PointGravity == Point("DEAD", 1, Q(4), Str_Gravity, "Global", Half, TRUE)
PointGravityUp == Point("LIVE", 1, Q(-4), Str_GRAVITY, "Local", Half, TRUE)
PointUnknown == Point("DEAD", 1, Q(-4), Str_Q, "Global", Half, TRUE)
PointLowerY == Point("DEAD", 1, Q(-4), Str_y, "Global", Half, TRUE)
PointLocal2 == Point("DEAD", 1, Q(-4), Str_2, "Local", One, FALSE)
PointX == Point("LIVE", 2, Q(4), Str_X, "Global", Half, TRUE)
PointOutside == Point("DEAD", 1, Q(-4), Str_Gravity, "Global", Q(3), FALSE)
PointGhost == Point("DEAD", 77, Q(-4), Str_Gravity, "Global", Half, TRUE)

LoadConfigs ==
    { <<>>, <<NodalDown>>, <<NodalDown, NodalUp>>, <<NodalAtTol>>, <<NodalBelowTol>>,
      <<NodalDown, NodalGhost>>, <<DistDown, PointGravity>>, <<DistProjected>>,
      <<DistColumnProjected, NodalDown>>, <<DistLocalProjected>>, <<DistGhost, DistDown>>,
      <<PointGravity, PointGravityUp>>, <<PointUnknown>>, <<PointUnknown, NodalDown>>,
      <<PointLowerY>>, <<PointLocal2, PointX>>, <<PointOutside>>, <<PointGhost, NodalUp>> }

ListItem(pat, scale) == [kind |-> "list", item |-> <<pat, scale>>]
DictItem(pat, scale) == [kind |-> "dict", item |-> [name |-> pat, scale |-> scale]]

MS_Self == [name |-> "Self", include_self_mass |-> TRUE, include_patterns |-> FALSE]
MS_Loads == [name |-> "Loads", include_self_mass |-> FALSE, include_patterns |-> TRUE,
             load_patterns |-> << ListItem("DEAD", One), DictItem("LIVE", One) >>]
MS_Both == [name |-> "Both", include_patterns |-> TRUE,
            load_patterns |-> << ListItem("DEAD", One), ListItem("LIVE", RNeg(One)) >>]

RequestNames == {"Loads", "Both", "Default", "Nope"}

\* the call sequences explored have at most MaxCalls calls
MaxCalls == 2

(***************************************************************************)
(* State                                                                   *)
(*   dm        the data model the two assemblers were constructed on       *)
(*   snapshot  the data model as it was at construction                    *)
(*   K, P      GlobalAssembler.K and .P                                    *)
(*   M         GlobalMassAssembler.M                                       *)
(*   last      the most recent call: its name, argument and outcome; P as  *)
(*             it was when the call began and whether M was empty then;    *)
(*             the locals M_pat (self.M when the pattern stage began) and  *)
(*             F_accum                                                     *)
(*   calls     number of calls made                                        *)
(*   user_info, credentials                                               *)
(*             the fields of the GoogleAuthManager in use; <<>> is None   *)
(*   credentials_file                                                      *)
(*             the file GoogleAuthConfig.CREDENTIALS_FILE: <<>> when it   *)
(*             does not exist, otherwise << its content >>                *)
(*   client    Database._client                                            *)
(*   users     the documents of the "users" collection                    *)
(*   now       the clock, in minutes                                      *)
(***************************************************************************)
VARIABLES dm, snapshot, K, P, M, last, calls,
          user_info, credentials, credentials_file, client, users, now,
          thread, signals, login_dialog

vars == <<dm, snapshot, K, P, M, last, calls,
          user_info, credentials, credentials_file, client, users, now,
          thread, signals, login_dialog>>

\* the Google sign-in thread, the signals it has emitted and the login dialog
google == <<thread, signals, login_dialog>>

NoGoogle == thread = <<>> /\ signals = <<>> /\ login_dialog = <<>>

\* the variables of the sign-in subsystem, which the assemblers never touch
session == <<user_info, credentials, credentials_file, client, users, now, google>>

NoSession ==
    /\ user_info = <<>> /\ credentials = <<>> /\ credentials_file = <<>>
    /\ client = <<>> /\ users = <<>> /\ now = 0
    /\ NoGoogle

DataModel(e, l, c, r) ==
    [nodes |-> Nodes, elements |-> e, loads |-> l, load_case |-> c, mass_sources |-> r]

ListRegistry ==
    [kind |-> "list", entries |-> << [def |-> MS_Self], [def |-> MS_Loads], [def |-> MS_Both] >>]
DictRegistry ==
    [kind |-> "dict", entries |-> << [key |-> "Loads", def |-> MS_Loads],
                                     [key |-> "Both", def |-> MS_Both] >>]
DeadOnly == [patterns |-> << <<"DEAD", One>> >>]
DeadAndLive == [patterns |-> << <<"DEAD", Q(2)>>, <<"LIVE", RNeg(One)>> >>]

\* every element configuration with and without a member load pair; every load
\* configuration on the beam-and-column frame; both registry forms
DataModels ==
    { DataModel(e, l, DeadOnly, ListRegistry) :
        e \in ElementConfigs, l \in { <<>>, <<DistDown, PointGravity>> } }
    \cup { DataModel(<<Beam, Column>>, l, DeadAndLive, ListRegistry) : l \in LoadConfigs }
    \cup { DataModel(<<Beam, Column>>, l, DeadAndLive, DictRegistry) :
        l \in { <<NodalDown, NodalUp>>, <<PointUnknown>> } }

\* variant of AssemblerWrites in which "dist_raw *= L_total" updates load['dist']
\* itself for every relative member_point load of a known element
AssemblerWrites_dist(d) ==
    [d EXCEPT !.loads = Tab(Len(d.loads), LAMBDA n :
        IF d.loads[n].type = "member_point" /\ d.loads[n].is_rel
           /\ FindElement(d, d.loads[n].element_id) # <<>>
        THEN [d.loads[n] EXCEPT !.dist =
                  RMul(@, FindElement(d, d.loads[n].element_id)[1].L_total)]
        ELSE d.loads[n])]

\* the data model after assemble_system: every value read from dm is bound to a
\* local and copied (np.array, +, @, .copy()) before it is updated in place
AssemblerWrites(d) == d

\* the data model after build_mass_matrix
MassAssemblerWrites(d) == d

Init ==
    /\ dm \in DataModels
    /\ snapshot = dm
    /\ K = ZeroMat(total_dofs(dm), total_dofs(dm))
    /\ P = ZeroVec(total_dofs(dm))
    /\ M = ZeroMat(total_dofs(dm), total_dofs(dm))
    /\ last = [op |-> "none", arg |-> "", status |-> "none", P_in |-> <<>>,
               M_in_empty |-> FALSE, M_pat |-> <<>>, F_accum |-> <<>>]
    /\ calls = 0
    /\ NoSession

AssembleSystem ==
    /\ calls < MaxCalls
    /\ LET r == assemble_system(dm, K, P)
       IN  K' = r.K /\ P' = r.P
    /\ last' = [op |-> "assemble_system", arg |-> "", status |-> "ok", P_in |-> P,
                M_in_empty |-> FALSE, M_pat |-> <<>>, F_accum |-> <<>>]
    /\ dm' = AssemblerWrites(dm)
    /\ calls' = calls + 1
    /\ UNCHANGED <<snapshot, M>>
    /\ UNCHANGED session

BuildMassMatrix(name) ==
    /\ calls < MaxCalls
    /\ LET r == build_mass_matrix(dm, M, name)
       IN  /\ M' = r.M
           /\ last' = [op |-> "build_mass_matrix", arg |-> name, status |-> r.status,
                       P_in |-> <<>>, M_in_empty |-> (M = ZeroMat(Len(M), Len(M))),
                       M_pat |-> r.M_pat, F_accum |-> r.F_accum]
    /\ dm' = MassAssemblerWrites(dm)
    /\ calls' = calls + 1
    /\ UNCHANGED <<snapshot, K, P>>
    /\ UNCHANGED session

Next ==
    \/ AssembleSystem
    \/ \E name \in RequestNames : BuildMassMatrix(name)

Spec == Init /\ [][Next]_vars

\* ---------------------------------------------------------------------------
\* _condense_matrix as an operation of its own: any 12x12 matrix, any releases
\* ---------------------------------------------------------------------------

\* the matrices handed to _condense_matrix are scaled by 0..MaxScale
MaxScale == 2

\* a matrix that is neither symmetric nor singular
UpperBidiagonal ==
    Tab(12, LAMBDA i : Tab(12, LAMBDA j : IF j = i \/ j = i + 1 THEN One ELSE Zero))

CondenseMatrices ==
    { Tab(12, LAMBDA i : VecScale(k[i], Q(s))) :
        k \in { ElementLocalStiffness(Beam), ElementLocalStiffness(Column),
                ElementLocalStiffness(BeamOffset), Identity(12), UpperBidiagonal },
        s \in 0..MaxScale }

CondenseReleases ==
    { NoRel, Rel({}, {6}), Rel({5, 6}, {5, 6}), Rel({}, {5, 6}), Rel({2}, {}),
      Rel({}, {4}), Rel({4}, {4}), Rel({1}, {1}), Rel({}, 1..6), Rel(1..6, 1..6) }

InitCondense ==
    /\ dm = DataModel(<<Beam>>, <<>>, DeadOnly, ListRegistry)
    /\ snapshot = dm
    /\ K = ZeroMat(total_dofs(dm), total_dofs(dm))
    /\ P = ZeroVec(total_dofs(dm))
    /\ M = ZeroMat(total_dofs(dm), total_dofs(dm))
    /\ \E k \in CondenseMatrices : \E releases \in CondenseReleases :
           last = [op |-> "input", k |-> k, releases |-> releases]
    /\ calls = 0
    /\ NoSession

CondenseMatrix ==
    /\ last.op = "input"
    /\ last' = [op |-> "_condense_matrix", k |-> last.k, releases |-> last.releases,
                result |-> _condense_matrix(last.k, last.releases)]
    /\ calls' = calls + 1
    /\ UNCHANGED <<dm, snapshot, K, P, M>>
    /\ UNCHANGED session

NextCondense == CondenseMatrix

SpecCondense == InitCondense /\ [][NextCondense]_vars

\* ---------------------------------------------------------------------------
\* Properties
\* ---------------------------------------------------------------------------

Fresh(d) == ZeroMat(total_dofs(d), total_dofs(d))

\* C1: every call returns what a first call on a fresh instance returns for the
\* current data model: K and P after assemble_system, M after build_mass_matrix
C1_RebuildIndependent ==
    /\ last.op = "assemble_system" =>
           /\ K = assemble_system(dm, Fresh(dm), ZeroVec(total_dofs(dm))).K
           /\ P = assemble_system(dm, Fresh(dm), ZeroVec(total_dofs(dm))).P
    /\ (last.op = "build_mass_matrix" /\ last.status # "KeyError") =>
           M = build_mass_matrix(dm, Fresh(dm), last.arg).M

\* C2: build_mass_matrix with a name that resolves to no mass source returns an
\* all-zero matrix, whatever the instance built before
C2_UnknownSourceZero ==
    (last.op = "build_mass_matrix" /\ last.status = "not_found") => M = Fresh(dm)

C4_AlwaysCompletes ==
    last.op \in {"assemble_system", "build_mass_matrix"} => last.status # "KeyError"

NoReleases(d) == \A n \in 1..Len(d.elements) : ~AnyRelease(d.elements[n])

\* C5: when no element has a release flag set, K is symmetric
C5_SymmetricWithoutReleases == NoReleases(dm) => K = Transpose(K)

C5_Witness ==
    /\ last.op = "assemble_system"
    /\ NoReleases(dm)
    /\ dm.elements = <<Column, BeamOffset>>
    /\ \E r \in 1..Len(K) : \E c \in 1..Len(K) : r # c /\ K[r][c] # Zero

\* C6: with all 12 release flags false, _condense_matrix returns k entry for entry
C6_CondenseIdentity ==
    (last.op = "_condense_matrix" /\ last.releases = NoRel) => last.result = last.k

C6_Witness ==
    /\ last.op = "_condense_matrix"
    /\ last.releases = NoRel
    /\ last.k # Transpose(last.k)
    /\ last.result = last.k

\* the net global Z force of the node with index n, from F_accum of the last call
NetZ(n) == last.F_accum[n * 6 + 3]

\* entries other than the three translational diagonal entries of each node are
\* what they were before the pattern stage, and no diagonal entry is smaller
OnlyTranslationalGrow ==
    /\ \A r \in 1..Len(M) : \A c \in 1..Len(M) :
           (r # c \/ (r - 1) % 6 >= 3) => M[r][c] = last.M_pat[r][c]
    /\ \A r \in 1..Len(M) : RLe(last.M_pat[r][r], M[r][r])

\* C7: a node whose net Z force is >= -1e-5 gets no pattern-derived mass; a node
\* whose net Z force is -F with F > 1e-5 gets exactly F/g on each of its three
\* translational diagonal entries; nothing else changes and nothing decreases
C7_NetDownwardRule ==
    last.op = "build_mass_matrix" =>
        /\ \A n \in 0..(Len(dm.nodes) - 1) : \A t \in 1..3 :
               /\ RLe(MassTol, NetZ(n)) =>
                      M[n * 6 + t][n * 6 + t] = last.M_pat[n * 6 + t][n * 6 + t]
               /\ RLt(NetZ(n), MassTol) =>
                      M[n * 6 + t][n * 6 + t] =
                          RAdd(last.M_pat[n * 6 + t][n * 6 + t],
                               RDiv(RNeg(NetZ(n)), Gravity))
        /\ OnlyTranslationalGrow

\* C7 as stated: the second case is every net Z force -F with F > 0
C7_NetDownwardRule_AnyPositiveF ==
    last.op = "build_mass_matrix" =>
        /\ \A n \in 0..(Len(dm.nodes) - 1) : \A t \in 1..3 :
               /\ RLe(MassTol, NetZ(n)) =>
                      M[n * 6 + t][n * 6 + t] = last.M_pat[n * 6 + t][n * 6 + t]
               /\ RLt(NetZ(n), Zero) =>
                      M[n * 6 + t][n * 6 + t] =
                          RAdd(last.M_pat[n * 6 + t][n * 6 + t],
                               RDiv(RNeg(NetZ(n)), Gravity))
        /\ OnlyTranslationalGrow

\* the scaled loads of two patterns met at one node and their net force was converted
C7_Witness ==
    /\ last.op = "build_mass_matrix" /\ last.status = "ok"
    /\ dm.loads = <<NodalDown, NodalUp>>
    /\ \E n \in 0..(Len(dm.nodes) - 1) :
           RLt(NetZ(n), MassTol) /\ M[n * 6 + 1][n * 6 + 1] # last.M_pat[n * 6 + 1][n * 6 + 1]

\* the self-mass stage ran in the last call
SelfMassRan ==
    /\ last.op = "build_mass_matrix"
    /\ _find_mass_source(dm, last.arg) # <<>>
    /\ Get(_find_mass_source(dm, last.arg)[1], "include_self_mass", TRUE)

\* the sum of the diagonal entries of A for translational direction t (1..3)
DirectionSum(A, t) ==
    Sum(Len(A) \div 6, LAMBDA n : A[(n - 1) * 6 + t][(n - 1) * 6 + t])

\* the sum of all translational diagonal entries of A
TranslationalSum(A) ==
    RAdd(RAdd(DirectionSum(A, 1), DirectionSum(A, 2)), DirectionSum(A, 3))

ElementMassSum(d) ==
    Sum(Len(d.elements), LAMBDA n :
        RMul(RMul(d.elements[n].section.A, RDiv(d.elements[n].material.rho, Gravity)),
             d.elements[n].L_total))

\* C8: after _add_element_self_mass on an empty M, the diagonal entries of M of
\* each one translational direction sum to the sum over elements of
\* A * (rho / g) * L_total, and no rotational diagonal entry has mass
C8_SelfMassConserved ==
    (SelfMassRan /\ last.M_in_empty) =>
        /\ \A t \in 1..3 : DirectionSum(last.M_pat, t) = ElementMassSum(dm)
        /\ \A t \in 4..6 : DirectionSum(last.M_pat, t) = Zero

\* C8 as stated: all translational diagonal entries together sum to the sum
\* over elements of A * (rho / g) * L_total
C8_SelfMassConserved_AllDirections ==
    (SelfMassRan /\ last.M_in_empty) => TranslationalSum(last.M_pat) = ElementMassSum(dm)

C8_Witness ==
    /\ SelfMassRan /\ last.M_in_empty
    /\ Len(dm.elements) = 2
    /\ RLt(Zero, DirectionSum(last.M_pat, 3))

\* C9: every diagonal entry of M is non-negative
C9_MassNonNegative == \A r \in 1..Len(M) : RLe(Zero, M[r][r])

C9_Witness ==
    /\ last.op = "build_mass_matrix" /\ last.status = "ok"
    /\ \E n \in 0..(Len(dm.nodes) - 1) : RLt(Zero, NetZ(n))
    /\ \E n \in 0..(Len(dm.nodes) - 1) : RLt(NetZ(n), MassTol)

\* a member-point load whose direction has none of GRAVITY, X, 1, Y, 2, Z, 3
Unparseable(load) ==
    /\ load.type = "member_point"
    /\ \A sub \in {Str_GRAVITY, <<"X">>, <<"1">>, <<"Y">>, <<"2">>, <<"Z">>, <<"3">>} :
           ~Contains(Upper(Get(load, "dir", Str_Gravity)), sub)

WithoutUnparseable(d) ==
    [d EXCEPT !.loads = SelectSeq(d.loads, LAMBDA load : ~Unparseable(load))]

\* the pattern stage of the last call accumulated forces
PatternStageRan ==
    /\ last.op = "build_mass_matrix" /\ last.status = "ok"
    /\ _find_mass_source(dm, last.arg) # <<>>
    /\ Get(_find_mass_source(dm, last.arg)[1], "include_patterns", FALSE)
    /\ Get(_find_mass_source(dm, last.arg)[1], "load_patterns", <<>>) # <<>>

\* C10: a member-point load with an unparseable direction contributes zero:
\* assemble_system leaves P as it would be without the load, and
\* build_mass_matrix accumulates the net nodal forces as it would without it
C10_UnparseableContributesZero ==
    /\ last.op = "assemble_system" =>
           P = _add_member_loads(WithoutUnparseable(dm),
                                 VecAdd(last.P_in, build_load_vector(WithoutUnparseable(dm))))
    /\ PatternStageRan =>
           last.F_accum =
               NetForces(WithoutUnparseable(dm),
                         MassActivePatterns(Get(_find_mass_source(dm, last.arg)[1],
                                                "load_patterns", <<>>)))

\* ---------------------------------------------------------------------------
\* _add_member_loads on one element carrying one member load, from any P
\* ---------------------------------------------------------------------------

\* rigid end zones of different lengths, and with a release
BeamRigidEnds == Elem(1, 0, 1, SecSlender, NoRel, NoOffsets, Half, <<1, 4>>, 0)
BeamOffsetPinned ==
    Elem(1, 0, 1, SecSlender, Rel({}, {6}), <<V(0, 0, 1), V(0, 0, 1)>>, Half, Half, 0)

MemberLoadElements ==
    { Beam, BeamPinned, BeamAxialFree, BeamOffset, BeamRigidEnds, BeamOffsetPinned }

\* positions before, on and after the ends of the member (length 2) and of its
\* rigid zones, absolute or as a fraction of L_total
MemberLoadPositions ==
    { <<-1, 2>>, Zero, <<1, 8>>, <<1, 4>>, <<3, 8>>, Half, <<3, 4>>, <<7, 8>>, One,
      <<3, 2>>, <<7, 4>>, Q(2), <<5, 2>> }

MemberLoads ==
    { Point("DEAD", id, Q(4), Str_Gravity, "Global", dist, is_rel) :
        id \in {1, 77}, dist \in MemberLoadPositions, is_rel \in BOOLEAN }
    \cup { Dist("DEAD", id, V(0, 0, -2), "Global", FALSE) : id \in {1, 77} }

\* the point of a member_point load lies on an end of the clear span, so that
\* one of the two segments of _get_exact_fef_via_stiffness has length zero: the
\* Element Model does not say what its matrix is for a zero length
ZeroLengthSegment(d, load) ==
    /\ load.type = "member_point"
    /\ FindElement(d, load.element_id) # <<>>
    /\ LET el == FindElement(d, load.element_id)[1]
           a == a_dist(load, el, Get(el, "end_off_i", Zero), Get(el, "end_off_j", Zero))
       IN  a # <<>> /\ el.L_clear # Zero /\ a[1] \in {Zero, el.L_clear}

InitMemberLoad ==
    /\ \E el \in MemberLoadElements : \E load \in MemberLoads :
           dm = DataModel(<<el>>, <<load>>, DeadOnly, ListRegistry)
    /\ snapshot = dm
    /\ K = ZeroMat(total_dofs(dm), total_dofs(dm))
    /\ P \in { ZeroVec(total_dofs(dm)), Tab(total_dofs(dm), LAMBDA r : Q(r - 9)) }
    /\ M = ZeroMat(total_dofs(dm), total_dofs(dm))
    /\ last = [op |-> "none"]
    /\ calls = 0
    /\ NoSession

\* self._add_member_loads(); P' is <<>> where the outcome is the Element
\* Model's for a zero length
AddMemberLoads ==
    /\ calls = 0
    /\ P' = IF ZeroLengthSegment(dm, dm.loads[1]) THEN <<>> ELSE _add_member_loads(dm, P)
    /\ last' = [op |-> "_add_member_loads", P_in |-> P,
                a_dist |-> IF dm.loads[1].type = "member_point"
                              /\ FindElement(dm, dm.loads[1].element_id) # <<>>
                           THEN a_dist(dm.loads[1], dm.elements[1],
                                       Get(dm.elements[1], "end_off_i", Zero),
                                       Get(dm.elements[1], "end_off_j", Zero))
                           ELSE <<>>]
    /\ calls' = 1
    /\ UNCHANGED <<dm, snapshot, K, M>>
    /\ UNCHANGED session

NextMemberLoad == AddMemberLoads

SpecMemberLoad == InitMemberLoad /\ [][NextMemberLoad]_vars

\* position of a member_point load along the member, from node i
PositionOf(load, el) == IF load.is_rel THEN RMul(load.dist, el.L_total) ELSE load.dist

\* the position lies in the closed interval [ri, L_total - rj]
InClearSpan(load, el) ==
    /\ ~RLt(PositionOf(load, el), el.end_off_i)
    /\ ~RLt(RSub(el.L_total, el.end_off_j), PositionOf(load, el))

\* C11: a member load naming no element, or a point load outside
\* [ri, L_total - rj], leaves P as it was, whatever the element's releases,
\* offsets and rigid ends; a point load inside the interval, its ends included,
\* is processed with a = position - ri
C11_DanglingLoadSkipped ==
    last.op = "_add_member_loads" =>
        LET load == dm.loads[1]
            el == dm.elements[1]
        IN  /\ load.element_id # el.id => P = last.P_in /\ last.a_dist = <<>>
            /\ (load.element_id = el.id /\ load.type = "member_point") =>
                   IF InClearSpan(load, el)
                   THEN last.a_dist = << RSub(PositionOf(load, el), el.end_off_i) >>
                   ELSE P = last.P_in /\ last.a_dist = <<>>

\* a point load inside the rigid zone at end i of a released element with
\* offsets was skipped: a nonzero P came back as it was
C11_Witness ==
    /\ last.op = "_add_member_loads"
    /\ dm.elements[1] = BeamOffsetPinned
    /\ dm.loads[1].type = "member_point" /\ dm.loads[1].element_id = 1
    /\ PositionOf(dm.loads[1], dm.elements[1]) = <<1, 4>>
    /\ last.a_dist = <<>>
    /\ P = last.P_in /\ P # ZeroVec(Len(P))

\* ---------------------------------------------------------------------------
\* _apply_projection_factor as an operation of its own
\* ---------------------------------------------------------------------------

\* 5e-10, below the 1e-9 of the vertical test
Tiny == <<1, 2000000000>>

\* end points with L_total, the node-to-node length the Data Model holds, and
\* xy, the distance of the end points in plan
Member(p1, p2, L_total, xy) == [p1 |-> p1, p2 |-> p2, L_total |-> L_total, xy |-> xy]

ProjectionMembers ==
    { Member(V(0, 0, 0), V(2, 0, 0), Q(2), Q(2)),
      Member(V(2, 0, 0), V(0, 0, 0), Q(2), Q(2)),
      Member(V(0, 0, 1), V(3, 4, 1), Q(5), Q(5)),
      Member(V(1, 5, 2), V(1, 2, 2), Q(3), Q(3)),
      Member(V(0, 0, 0), V(3, 0, 4), Q(5), Q(3)),
      Member(V(0, 0, 3), V(0, 4, 0), Q(5), Q(4)),
      Member(V(3, 4, 12), V(0, 0, 0), Q(13), Q(5)),
      Member(V(1, 1, 0), V(1, 1, 2), Q(2), Zero),
      Member(V(2, 0, 2), V(2, 0, 0), Q(2), Zero),
      Member(V(0, 0, 0), <<Tiny, Zero, Q(2)>>, Q(2), Tiny),
      Member(V(0, 1, 0), <<Zero, RSub(One, Tiny), Q(2)>>, Q(2), Tiny) }

ProjectionLoads == { V(0, 0, -2), V(1, -2, 3), <<Half, Zero, <<-7, 3>>>>, V(0, 0, 0) }

InitProjection ==
    /\ dm = DataModel(<<Beam>>, <<>>, DeadOnly, ListRegistry)
    /\ snapshot = dm
    /\ K = ZeroMat(total_dofs(dm), total_dofs(dm))
    /\ P = ZeroVec(total_dofs(dm))
    /\ M = ZeroMat(total_dofs(dm), total_dofs(dm))
    /\ \E m \in ProjectionMembers : \E w \in ProjectionLoads :
       \E coord \in {"Global", "Local"} :
           last = [op |-> "input", member |-> m, w_local |-> w, coord_system |-> coord]
    /\ calls = 0
    /\ NoSession

ApplyProjectionFactor ==
    /\ last.op = "input"
    /\ last' = [op |-> "_apply_projection_factor", member |-> last.member,
                w_local |-> last.w_local, coord_system |-> last.coord_system,
                result |-> _apply_projection_factor(last.w_local, last.member.p1,
                                                    last.member.p2, last.member.L_total,
                                                    last.coord_system)]
    /\ calls' = calls + 1
    /\ UNCHANGED <<dm, snapshot, K, P, M>>
    /\ UNCHANGED session

NextProjection == ApplyProjectionFactor

SpecProjection == InitProjection /\ [][NextProjection]_vars

\* C12: for a Global load _apply_projection_factor returns the load scaled by
\* (distance in plan) / L_total, which is the load itself for end nodes of
\* equal elevation and exactly zero for a distance in plan below 1e-9; for a
\* Local load it returns the load unchanged
C12_ProjectionFactor ==
    last.op = "_apply_projection_factor" =>
        IF last.coord_system = "Local" THEN last.result = last.w_local
        ELSE /\ RLt(last.member.xy, VerticalTol) => last.result = V(0, 0, 0)
             /\ ~RLt(last.member.xy, VerticalTol) =>
                    \A c \in 1..3 :
                        RMul(last.result[c], last.member.L_total)
                            = RMul(last.w_local[c], last.member.xy)
             /\ last.member.p1[3] = last.member.p2[3] => last.result = last.w_local

\* a Global load on an inclined member came back scaled by 3/5
C12_Witness ==
    /\ last.op = "_apply_projection_factor"
    /\ last.coord_system = "Global"
    /\ last.member.xy = Q(3) /\ last.member.L_total = Q(5)
    /\ last.w_local = V(1, -2, 3)
    /\ last.result = << <<3, 5>>, <<-6, 5>>, <<9, 5>> >>

\* ---------------------------------------------------------------------------
\* _get_exact_fef_via_stiffness as an operation of its own
\* ---------------------------------------------------------------------------

Aluminium == [E |-> Q(2), G |-> Q(1), rho |-> Q(1)]
\* shear-rigid like SecSlender, with other stiffnesses
SecStocky == [A |-> Q(3), J |-> Q(2), I22 |-> Q(5), I33 |-> Q(3), As2 |-> Zero, As3 |-> Zero]

FefLengths == { One, Q(2), Q(4) }
FefFractions == { Half, <<1, 4>> }
FefLoads == { V(0, 4, 0), V(0, 0, -3), V(2, -1, 5), <<Zero, <<1, 3>>, Zero>> }

InitFef ==
    /\ dm = DataModel(<<Beam>>, <<>>, DeadOnly, ListRegistry)
    /\ snapshot = dm
    /\ K = ZeroMat(total_dofs(dm), total_dofs(dm))
    /\ P = ZeroVec(total_dofs(dm))
    /\ M = ZeroMat(total_dofs(dm), total_dofs(dm))
    /\ \E L \in FefLengths : \E f \in FefFractions : \E P_vec_local \in FefLoads :
       \E mat \in {Steel, Aluminium} : \E sec \in {SecSlender, SecStocky, SecDeep} :
           last = [op |-> "input", L |-> L, a |-> RMul(f, L), P_vec_local |-> P_vec_local,
                   mat |-> mat, sec |-> sec]
    /\ calls = 0
    /\ NoSession

GetExactFef ==
    /\ last.op = "input"
    /\ last' = [op |-> "_get_exact_fef_via_stiffness", L |-> last.L, a |-> last.a,
                P_vec_local |-> last.P_vec_local, mat |-> last.mat, sec |-> last.sec,
                result |-> _get_exact_fef_via_stiffness(last.L, last.a, last.P_vec_local,
                                                        last.mat, last.sec)]
    /\ calls' = calls + 1
    /\ UNCHANGED <<dm, snapshot, K, P, M>>
    /\ UNCHANGED session

NextFef == GetExactFef

SpecFef == InitFef /\ [][NextFef]_vars

\* C13: for a point load at midspan of a shear-rigid beam the two-segment
\* solve gives, in each bending plane, end shears of magnitude P/2 and end
\* moments of magnitude P*L/8, equal and opposite at the two ends
C13_MidspanClassical ==
    (/\ last.op = "_get_exact_fef_via_stiffness"
     /\ RMul(Q(2), last.a) = last.L
     /\ last.sec.As2 = Zero /\ last.sec.As3 = Zero) =>
        LET r == last.result
            Py == last.P_vec_local[2]
            Pz == last.P_vec_local[3]
        IN  /\ RAbs(r[2]) = RDiv(RAbs(Py), Q(2)) /\ RAbs(r[8]) = RDiv(RAbs(Py), Q(2))
            /\ RAbs(r[6]) = RDiv(RMul(RAbs(Py), last.L), Q(8)) /\ r[12] = RNeg(r[6])
            /\ RAbs(r[3]) = RDiv(RAbs(Pz), Q(2)) /\ RAbs(r[9]) = RDiv(RAbs(Pz), Q(2))
            /\ RAbs(r[5]) = RDiv(RMul(RAbs(Pz), last.L), Q(8)) /\ r[11] = RNeg(r[5])

\* a load of 4 in local 2 at midspan of a shear-rigid beam of length 4: end
\* shears of magnitude 2, end moments of magnitude 2, opposite
C13_Witness ==
    /\ last.op = "_get_exact_fef_via_stiffness"
    /\ last.L = Q(4) /\ last.a = Q(2) /\ last.sec = SecStocky
    /\ last.P_vec_local = V(0, 4, 0)
    /\ RAbs(last.result[2]) = Q(2) /\ RAbs(last.result[8]) = Q(2)
    /\ RAbs(last.result[6]) = Q(2) /\ last.result[12] = RNeg(last.result[6])

\* ---------------------------------------------------------------------------
\* _find_mass_source as an operation of its own, on any registry
\* ---------------------------------------------------------------------------

\* a source that is itself named "Default"
MS_Default == [name |-> "Default", include_self_mass |-> FALSE, include_patterns |-> FALSE]

\* the registries explored have at most MaxEntries entries
MaxEntries == 2

MassSourceDefs == { MS_Self, MS_Loads, MS_Both, MS_Default }

\* the sequences of n mass sources
RECURSIVE SourceLists(_)
SourceLists(n) ==
    IF n = 0 THEN { <<>> }
    ELSE { Append(l, def) : l \in SourceLists(n - 1), def \in MassSourceDefs }

\* a list registry of any sources; a mapping keyed by the names of its sources,
\* which are then distinct
Registries ==
    UNION { { [kind |-> "list", entries |-> Tab(n, LAMBDA k : [def |-> l[k]])]
                : l \in SourceLists(n) }
            \cup { [kind |-> "dict",
                    entries |-> Tab(n, LAMBDA k : [key |-> l[k].name, def |-> l[k]])]
                     : l \in { q \in SourceLists(n) :
                                  \A i, j \in 1..n : q[i] = q[j] => i = j } }
            : n \in 0..MaxEntries }

SourceNames == { "Self", "Loads", "Both", "Default", "Nope" }

InitMassSource ==
    /\ \E r \in Registries : dm = DataModel(<<Beam>>, <<>>, DeadOnly, r)
    /\ snapshot = dm
    /\ K = ZeroMat(total_dofs(dm), total_dofs(dm))
    /\ P = ZeroVec(total_dofs(dm))
    /\ M = ZeroMat(total_dofs(dm), total_dofs(dm))
    /\ last = [op |-> "none"]
    /\ calls = 0
    /\ NoSession

FindMassSource(name) ==
    /\ calls = 0
    /\ last' = [op |-> "_find_mass_source", name |-> name,
                result |-> _find_mass_source(dm, name)]
    /\ calls' = 1
    /\ UNCHANGED <<dm, snapshot, K, P, M>>
    /\ UNCHANGED session

NextMassSource == \E name \in SourceNames : FindMassSource(name)

SpecMassSource == InitMassSource /\ [][NextMassSource]_vars

\* the sources of the registry, in order
DefinedSources(d) == Tab(Len(d.mass_sources.entries), LAMBDA k : d.mass_sources.entries[k].def)

\* C14: _find_mass_source returns an entry named as requested when there is
\* one; when there is none and the request is "Default" it returns the first
\* entry; in every other case, an empty registry included, it returns nothing
C14_MassSourceResolution ==
    last.op = "_find_mass_source" =>
        LET defs == DefinedSources(dm)
        IN  IF \E k \in 1..Len(defs) : defs[k].name = last.name
            THEN \E k \in 1..Len(defs) :
                     defs[k].name = last.name /\ last.result = << defs[k] >>
            ELSE IF last.name = "Default" /\ Len(defs) > 0
            THEN last.result = << defs[1] >>
            ELSE last.result = <<>>

\* "Default" was requested from a registry whose second entry is named
\* "Default": that entry came back, not the first
C14_Witness ==
    /\ last.op = "_find_mass_source"
    /\ last.name = "Default"
    /\ Len(dm.mass_sources.entries) = 2
    /\ dm.mass_sources.entries[1].def = MS_Loads
    /\ last.result = << MS_Default >>

\* ---------------------------------------------------------------------------
\* Singular condensation
\* ---------------------------------------------------------------------------

\* the 0/1 vectors of length n
RECURSIVE BinaryVectors(_)
BinaryVectors(n) ==
    IF n = 0 THEN { <<>> }
    ELSE { Append(v, x) : v \in BinaryVectors(n - 1), x \in {Zero, One} }

\* the released block K_cc of el sends a nonzero 0/1 vector to zero, so it has
\* no inverse
SingularReleasedBlock(el) ==
    LET idx_c == SelectIdx(el.releases[1] \o el.releases[2], TRUE)
        K_cc == SubMat(ElementLocalStiffness(el), idx_c, idx_c)
    IN  /\ idx_c # <<>>
        /\ \E v \in BinaryVectors(Len(idx_c)) :
               v # ZeroVec(Len(idx_c)) /\ MatVec(K_cc, v) = ZeroVec(Len(idx_c))

\* d with the releases removed from the elements whose released block is singular
Uncondensed(d) ==
    [d EXCEPT !.elements = Tab(Len(d.elements), LAMBDA n :
        IF SingularReleasedBlock(d.elements[n])
        THEN [d.elements[n] EXCEPT !.releases = NoRel]
        ELSE d.elements[n])]

\* C15: an element whose released block K_cc has no inverse is assembled with
\* its matrix and its fixed-end forces as they were before condensation, and
\* the other elements and the loads are assembled as usual
C15_SingularFallsBack ==
    (/\ last.op = "assemble_system" /\ calls = 1
     /\ \E n \in 1..Len(dm.elements) : SingularReleasedBlock(dm.elements[n])) =>
        /\ K = _build_stiffness(Uncondensed(dm), ZeroMat(total_dofs(dm), total_dofs(dm)))
        /\ P = _add_member_loads(Uncondensed(dm), build_load_vector(dm))

\* the frame with the axially released beam, a column and two member loads on
\* the beam was assembled
C15_Witness ==
    /\ last.op = "assemble_system" /\ calls = 1
    /\ dm.elements = <<BeamAxialFree, Column>>
    /\ SingularReleasedBlock(dm.elements[1])
    /\ dm.loads = <<DistDown, PointGravity>>
    /\ K[1][1] = Q(6) /\ K[1][7] = Q(-6)
    /\ K[9][9] # Zero
    /\ P[3] # Zero

\* ---------------------------------------------------------------------------
\* _parse_load_direction, and the frame of a point load, on any direction string
\* ---------------------------------------------------------------------------

\* the direction strings explored are the strings of at most MaxDirLen
\* characters of DirectionChars, and the strings of GravityStrings
MaxDirLen == 2

DirectionChars == { "x", "X", "y", "Y", "z", "Z", "1", "2", "3", "q", "-" }

RECURSIVE StringsOf(_)
StringsOf(n) ==
    IF n = 0 THEN { <<>> }
    ELSE { Append(w, ch) : w \in StringsOf(n - 1), ch \in DirectionChars }

Str_gravity == <<"g","r","a","v","i","t","y">>
GravityStrings ==
    { Str_GRAVITY, Str_Gravity, Str_gravity, <<"x">> \o Str_Gravity \o <<"3">>,
      <<"-">> \o Str_gravity, <<"G","r","a","v","i","t">>,
      <<"G","R","A","V","I","T","X","Y">> }

DirectionStrings == UNION { StringsOf(n) : n \in 0..MaxDirLen } \cup GravityStrings

\* the point load is on the column, whose local axes are not the global ones
InitDirection ==
    /\ \E dir \in DirectionStrings : \E coord \in {"Global", "Local"} :
           dm = DataModel(<<Beam, Column>>,
                          << Point("DEAD", 2, Q(4), dir, coord, Half, TRUE) >>,
                          DeadAndLive, ListRegistry)
    /\ snapshot = dm
    /\ K = ZeroMat(total_dofs(dm), total_dofs(dm))
    /\ P = ZeroVec(total_dofs(dm))
    /\ M = ZeroMat(total_dofs(dm), total_dofs(dm))
    /\ last = [op |-> "none"]
    /\ calls = 0
    /\ NoSession

\* lines 280-296 of _add_member_loads for the load: the parsed direction and,
\* when there is one, P_local
ParseLoadDirection ==
    /\ calls = 0
    /\ LET load == dm.loads[1]
           el == FindElement(dm, load.element_id)[1]
           R_3x3 == get_rotation_matrix(NodeCoords(dm, el.node_indices[1]),
                                        NodeCoords(dm, el.node_indices[2]), el.beta)
           parsed == _parse_load_direction(load.dir)
       IN  last' = [op |-> "_parse_load_direction", parsed |-> parsed, R_3x3 |-> R_3x3,
                    P_local |-> IF parsed = <<>> THEN <<>>
                                ELSE << PointLocalLoad(load,
                                                       DictGet(ActivePatterns(dm), load.pattern),
                                                       parsed[1], R_3x3) >>]
    /\ calls' = 1
    /\ UNCHANGED <<dm, snapshot, K, P, M>>
    /\ UNCHANGED session

NextDirection == ParseLoadDirection

SpecDirection == InitDirection /\ [][NextDirection]_vars

\* s holds one of the characters of C
HasChar(s, C) == \E i \in 1..Len(s) : s[i] \in C

\* s holds the letters g, r, a, v, i, t, y in a row, each in either case
HasGravity(s) ==
    \E i \in 0..(Len(s) - 7) :
        \A k \in 1..7 : s[i + k] \in { Str_GRAVITY[k], Str_gravity[k] }

\* C16: _parse_load_direction gives Z with sign -1 for a string holding
\* GRAVITY in any case; otherwise X for one holding X or 1, else Y for Y or 2,
\* else Z for Z or 3, each with sign +1 and in any case; else no axis.  A
\* point load whose direction holds GRAVITY is rotated as a Global load
\* whatever frame it declares
C16_DirectionParsing ==
    last.op = "_parse_load_direction" =>
        LET dir == dm.loads[1].dir
        IN  /\ last.parsed =
                   IF HasGravity(dir) THEN << [idx |-> 3, sign |-> Q(-1)] >>
                   ELSE IF HasChar(dir, {"x", "X", "1"}) THEN << [idx |-> 1, sign |-> One] >>
                   ELSE IF HasChar(dir, {"y", "Y", "2"}) THEN << [idx |-> 2, sign |-> One] >>
                   ELSE IF HasChar(dir, {"z", "Z", "3"}) THEN << [idx |-> 3, sign |-> One] >>
                   ELSE <<>>
            /\ HasGravity(dir) =>
                   last.P_local = << MatVec(last.R_3x3, <<Zero, Zero, Q(-8)>>) >>

\* a load declared Local with direction "-gravity" was rotated as a Global
\* load along -Z
C16_Witness ==
    /\ last.op = "_parse_load_direction"
    /\ dm.loads[1].dir = <<"-">> \o Str_gravity
    /\ dm.loads[1].coord = "Local"
    /\ last.parsed = << [idx |-> 3, sign |-> Q(-1)] >>
    /\ last.P_local = << MatVec(last.R_3x3, <<Zero, Zero, Q(-8)>>) >>
    /\ last.P_local # << <<Zero, Zero, Q(-8)>> >>

\* ---------------------------------------------------------------------------
\* Sign-in session: GoogleAuthManager and the credentials file
\* (src/app/auth/manager.py)
\*
\* None is <<>> and a present value v is <<v>>; a dict is a record whose
\* values are wrapped this way, so that a JSON null is the value <<>>.
\* ---------------------------------------------------------------------------

\* google.oauth2.credentials.Credentials.valid: a token that has not expired
valid(c) == c.token # <<>> /\ ~c.expired

\* the credentials the OAuth flow hands to the dialog
FlowCredentials == [token |-> <<"ya29">>, refresh_token |-> <<"1//r">>, expired |-> FALSE]

\* dialog.user_info after a Google sign-in (thread.py: the profile plus the key
\* 'credentials') and after an email sign-in (email_auth.login)
GoogleUserInfo ==
    [name |-> <<"Ada">>, email |-> <<"ada@x.org">>, picture |-> <<"a.png">>,
     credentials |-> <<FlowCredentials>>]
OtherGoogleUserInfo ==
    [name |-> <<"Cy">>, email |-> <<"cy@x.org">>, picture |-> <<>>,
     credentials |-> <<FlowCredentials>>]
EmailUserInfo ==
    [name |-> <<"Bob">>, email |-> <<"bob@x.org">>, picture |-> <<"">>,
     provider |-> <<"email">>]

\* what dialog.exec() can end with: rejected, or accepted with the user's info
\* and the state of the "remember me" box
DialogOutcomes ==
    { [accepted |-> FALSE, user_info |-> <<>>, remember_me |-> FALSE] }
    \cup { [accepted |-> TRUE, user_info |-> <<u>>, remember_me |-> r] :
             u \in {GoogleUserInfo, OtherGoogleUserInfo, EmailUserInfo}, r \in BOOLEAN }

\* what writing the file can end with: written; open() failed and the file is as
\* it was; the write failed after open() had truncated the file
SaveOutcomes == {"written", "not_written", "truncated"}

CorruptFile == [parses |-> FALSE]
Json(data) == [parses |-> TRUE, data |-> data]

\* credentials files that this program did not write: one without remember_me,
\* one whose saved token is null
SavedUserInfo(u) ==
    [name |-> Get(u, "name", <<>>), email |-> Get(u, "email", <<>>), picture |-> Get(u, "picture", <<>>),
     provider |-> IF "provider" \in DOMAIN u THEN u.provider ELSE <<"google">>]
NotRememberedFile ==
    Json([remember_me |-> FALSE, user_info |-> SavedUserInfo(EmailUserInfo)])
NullTokenFile ==
    Json([remember_me |-> TRUE, user_info |-> SavedUserInfo(GoogleUserInfo),
          credentials |-> [token |-> <<>>, refresh_token |-> <<>>]])

\* _remove_credentials_file: os.remove may raise, which is logged and swallowed
_remove_credentials_file(file, removable) ==
    IF file # <<>> /\ removable THEN <<>> ELSE file

\* _load_saved_credentials: the return value, the fields it assigns (set says
\* whether it assigned user_info at all; credentials is only assigned when it
\* returns True) and the file afterwards.  Credentials(...) is built without an
\* expiry, so .expired is False and refresh() is never called.
_load_saved_credentials(file, removable) ==
    IF file = <<>> THEN
        [ret |-> FALSE, set |-> FALSE, user_info |-> <<>>, credentials |-> <<>>, file |-> file]
    ELSE IF ~file[1].parses THEN
        [ret |-> FALSE, set |-> FALSE, user_info |-> <<>>, credentials |-> <<>>,
         file |-> _remove_credentials_file(file, removable)]
    ELSE LET data == file[1].data IN
        IF ~("remember_me" \in DOMAIN data /\ data.remember_me) THEN
            [ret |-> FALSE, set |-> FALSE, user_info |-> <<>>, credentials |-> <<>>,
             file |-> file]
        ELSE IF "credentials" \in DOMAIN data THEN
            LET c == [token |-> Get(data.credentials, "token", <<>>),
                      refresh_token |-> Get(data.credentials, "refresh_token", <<>>),
                      expired |-> FALSE]
            IN  IF ~valid(c) THEN
                    [ret |-> FALSE, set |-> TRUE, user_info |-> <<data.user_info>>,
                     credentials |-> <<>>,
                     file |-> _remove_credentials_file(file, removable)]
                ELSE [ret |-> TRUE, set |-> TRUE, user_info |-> <<data.user_info>>,
                      credentials |-> <<c>>, file |-> file]
        ELSE [ret |-> TRUE, set |-> TRUE, user_info |-> <<data.user_info>>,
              credentials |-> <<>>, file |-> file]

\* _save_credentials with the manager's fields ui and cr: nothing when user_info
\* is None or empty; otherwise the payload, with 'credentials' only when the
\* manager has credentials
_save_credentials(ui, cr, file, outcome) ==
    IF ui = <<>> \/ DOMAIN ui[1] = {} THEN file
    ELSE IF outcome = "not_written" THEN file
    ELSE IF outcome = "truncated" THEN <<CorruptFile>>
    ELSE IF cr # <<>> THEN
        << Json([remember_me |-> TRUE, user_info |-> SavedUserInfo(ui[1]),
                 credentials |-> [token |-> cr[1].token,
                                  refresh_token |-> cr[1].refresh_token]]) >>
    ELSE << Json([remember_me |-> TRUE, user_info |-> SavedUserInfo(ui[1])]) >>

\* is_authenticated
is_authenticated(ui, cr) == ui # <<>> /\ cr # <<>> /\ valid(cr[1])

\* variant of login that saves the credentials of every accepted dialog
login_always_saves(ui, cr, file, dialog, removable, outcome) ==
    LET ld == _load_saved_credentials(file, removable) IN
    IF ld.ret THEN
        [ret |-> TRUE, dialog_shown |-> FALSE, user_info |-> ld.user_info,
         credentials |-> ld.credentials, file |-> ld.file]
    ELSE IF dialog.accepted THEN
        [ret |-> TRUE, dialog_shown |-> TRUE, user_info |-> dialog.user_info,
         credentials |-> Get(dialog.user_info[1], "credentials", <<>>),
         file |-> _save_credentials(dialog.user_info,
                                   Get(dialog.user_info[1], "credentials", <<>>),
                                   ld.file, outcome)]
    ELSE [ret |-> FALSE, dialog_shown |-> TRUE,
          user_info |-> IF ld.set THEN ld.user_info ELSE ui,
          credentials |-> cr, file |-> ld.file]

\* login on a manager whose fields are ui and cr
login(ui, cr, file, dialog, removable, outcome) ==
    LET ld == _load_saved_credentials(file, removable) IN
    IF ld.ret THEN
        [ret |-> TRUE, dialog_shown |-> FALSE, user_info |-> ld.user_info,
         credentials |-> ld.credentials, file |-> ld.file]
    ELSE IF dialog.accepted THEN
        [ret |-> TRUE, dialog_shown |-> TRUE, user_info |-> dialog.user_info,
         credentials |-> Get(dialog.user_info[1], "credentials", <<>>),
         file |-> IF dialog.remember_me
                  THEN _save_credentials(dialog.user_info,
                                        Get(dialog.user_info[1], "credentials", <<>>),
                                        ld.file, outcome)
                  ELSE ld.file]
    ELSE [ret |-> FALSE, dialog_shown |-> TRUE,
          user_info |-> IF ld.set THEN ld.user_info ELSE ui,
          credentials |-> cr, file |-> ld.file]

NoModel ==
    /\ dm = <<>> /\ snapshot = <<>> /\ K = <<>> /\ P = <<>> /\ M = <<>>

\* a new manager; the file is absent or is one this program did not write
InitSession ==
    /\ NoModel /\ NoGoogle
    /\ user_info = <<>> /\ credentials = <<>>
    /\ credentials_file \in { <<>>, <<CorruptFile>>, <<NotRememberedFile>>, <<NullTokenFile>> }
    /\ client = <<>> /\ users = <<>> /\ now = 0
    /\ last = [op |-> "__init__"]
    /\ calls = 0

Login(dialog, removable, outcome) ==
    /\ LET r == login(user_info, credentials, credentials_file, dialog, removable, outcome)
       IN  /\ user_info' = r.user_info
           /\ credentials' = r.credentials
           /\ credentials_file' = r.file
           /\ last' = [op |-> "login", ret |-> r.ret, dialog_shown |-> r.dialog_shown,
                       accepted |-> r.dialog_shown /\ dialog.accepted,
                       remember_me |-> r.dialog_shown /\ dialog.remember_me,
                       file_in |-> credentials_file]
    /\ UNCHANGED <<google, dm, snapshot, K, P, M, calls, client, users, now>>

Logout(removable) ==
    /\ user_info' = <<>>
    /\ credentials' = <<>>
    /\ credentials_file' = _remove_credentials_file(credentials_file, removable)
    /\ last' = [op |-> "logout"]
    /\ UNCHANGED <<google, dm, snapshot, K, P, M, calls, client, users, now>>

\* the application is started again: GoogleAuthManager()
NewManager ==
    /\ last.op # "__init__"
    /\ user_info' = <<>>
    /\ credentials' = <<>>
    /\ last' = [op |-> "__init__"]
    /\ UNCHANGED <<google, dm, snapshot, K, P, M, calls, client, users, now, credentials_file>>

\* the access token of the session runs out
TokenExpires ==
    /\ credentials # <<>> /\ ~credentials[1].expired
    /\ credentials' = << [credentials[1] EXCEPT !.expired = TRUE] >>
    /\ last' = [op |-> "expiry"]
    /\ UNCHANGED <<google, dm, snapshot, K, P, M, calls, client, users, now, user_info, credentials_file>>

NextSession ==
    \/ \E dialog \in DialogOutcomes, removable \in BOOLEAN, outcome \in SaveOutcomes :
          Login(dialog, removable, outcome)
    \/ \E removable \in BOOLEAN : Logout(removable)
    \/ NewManager
    \/ TokenExpires

SpecSession == InitSession /\ [][NextSession]_vars

\* whether a login() on a new manager would return without showing the dialog
AutoLogin(file) == \E removable \in BOOLEAN : _load_saved_credentials(file, removable).ret

\* C17: after logout returns, user_info and credentials are None,
\* is_authenticated() is False and the credentials file no longer exists, so
\* that the next login() shows the dialog.  The code does not guarantee the
\* last two: a failure of os.remove is logged and swallowed.
C17_LogoutClearsSession ==
    last.op = "logout" =>
        /\ user_info = <<>> /\ credentials = <<>>
        /\ ~is_authenticated(user_info, credentials)
        /\ credentials_file = <<>>
        /\ ~AutoLogin(credentials_file)

\* C18: login() returns True exactly when the auto-login succeeded or the
\* dialog was accepted, and False when the dialog was cancelled; it logs in
\* without the dialog only from a file saved with remember_me set; it writes the
\* file only when the dialog was accepted with "remember me" checked; and after
\* a dialog login with the box unchecked a login() on a new manager shows the
\* dialog again.
C18_RememberMe ==
    last.op = "login" =>
        /\ last.ret <=> (~last.dialog_shown \/ last.accepted)
        /\ ~last.dialog_shown =>
              /\ last.file_in # <<>> /\ last.file_in[1].parses
              /\ last.file_in[1].data.remember_me
              /\ credentials_file = last.file_in
        /\ (credentials_file # last.file_in /\ credentials_file # <<>>) =>
              last.accepted /\ last.remember_me
        /\ (last.accepted /\ ~last.remember_me) => ~AutoLogin(credentials_file)

C18_Witness ==
    /\ last.op = "login" /\ last.ret /\ last.accepted /\ ~last.remember_me
    /\ user_info = <<GoogleUserInfo>>
    /\ credentials_file = <<NotRememberedFile>>

\* ---------------------------------------------------------------------------
\* Email accounts: register, verification and password reset
\* (src/app/auth/email_auth.py, db.py, email_service.py)
\*
\* The clock counts minutes and advances in steps of TickMinutes.
\* ---------------------------------------------------------------------------
TickMinutes == 5
MaxMinutes == 15

\* str.lower() and str.strip()
LowerChar(ch) ==
    IF \E k \in 1..Len(UpperAlpha) : UpperAlpha[k] = ch
    THEN LowerAlpha[CHOOSE k \in 1..Len(UpperAlpha) : UpperAlpha[k] = ch]
    ELSE ch
lower(s) == Tab(Len(s), LAMBDA i : LowerChar(s[i]))
strip(s) ==
    LET keep == { i \in 1..Len(s) : s[i] # " " } IN
    IF keep = {} THEN <<>>
    ELSE SubSeq(s, CHOOSE i \in keep : \A j \in keep : i <= j,
                   CHOOSE i \in keep : \A j \in keep : j <= i)

\* _hash; the salt of bcrypt is left out, so equal passwords have equal hashes
_hash(password) == <<"$2b$">> \o password

\* generate_code(6): the codes random.choices can produce, which are also the
\* codes a user types
Codes == {"111111", "222222"}

Em_bob == <<"b","@","x">>
Em_bob_typed == <<" ","B","@","x">>
Em_ada == <<"a","@","x">>
Em_bad == <<"b","x">>
Emails == {Em_bob_typed, Em_ada}

Pw_short == <<"h","u","n","t","e","r","2">>
Pw_first == <<"h","u","n","t","e","r","2","2">>
Pw_new == <<"t","r","o","u","b","a","d","o","r">>

\* a document of an account created by the Google sign-in
GoogleDoc ==
    [name |-> "Ada", email |-> Em_ada, password_hash |-> <<>>, provider |-> "google",
     verified |-> TRUE, verify_code |-> <<>>, reset_code |-> <<>>, reset_expires |-> <<>>,
     created_at |-> 0, last_login |-> <<>>]

\* Database.connect: nothing when there is a client; otherwise the server is
\* reachable and the client is kept, or ConnectionFailure
connect(c, reachable) ==
    IF c # <<>> THEN [ok |-> TRUE, client |-> c]
    ELSE IF reachable THEN [ok |-> TRUE, client |-> <<"MongoClient">>]
    ELSE [ok |-> FALSE, client |-> <<>>]

\* the index of the first document a filter matches, 0 when there is none
First(S) == IF S = {} THEN 0 ELSE CHOOSE i \in S : \A j \in S : i <= j

\* get_user_by_email, as an index into the collection
get_user_by_email(u, email) ==
    First({ i \in 1..Len(u) : u[i].email = strip(lower(email)) })

create_user(u, name, email, password_hash, provider, t) ==
    Append(u, [name |-> name, email |-> strip(lower(email)),
               password_hash |-> password_hash, provider |-> provider,
               verified |-> FALSE, verify_code |-> <<>>, reset_code |-> <<>>,
               reset_expires |-> <<>>, created_at |-> t, last_login |-> <<>>])

set_verify_code(u, email, code) ==
    LET i == get_user_by_email(u, email) IN
    IF i = 0 THEN u ELSE [u EXCEPT ![i].verify_code = <<code>>]

\* verify_user: the collection afterwards and modified_count > 0
verify_user(u, email, code) ==
    LET i == First({ i \in 1..Len(u) :
                       u[i].email = strip(lower(email)) /\ u[i].verify_code = <<code>> })
        v == IF i = 0 THEN u
             ELSE [u EXCEPT ![i].verified = TRUE, ![i].verify_code = <<>>]
    IN  [users |-> v, modified |-> v # u]

set_reset_code(u, email, code, expires) ==
    LET i == get_user_by_email(u, email) IN
    IF i = 0 THEN u
    ELSE [u EXCEPT ![i].reset_code = <<code>>, ![i].reset_expires = <<expires>>]

\* variant of reset_password that leaves reset_code and reset_expires in place
reset_password_keeps_code(u, email, code, new_hash, t) ==
    LET i == First({ i \in 1..Len(u) :
                       /\ u[i].email = strip(lower(email))
                       /\ u[i].reset_code = <<code>>
                       /\ u[i].reset_expires # <<>> /\ u[i].reset_expires[1] > t })
        v == IF i = 0 THEN u
             ELSE [u EXCEPT ![i].password_hash = new_hash]
    IN  [users |-> v, modified |-> i # 0]

\* reset_password at time t: the collection afterwards and modified_count > 0
reset_password(u, email, code, new_hash, t) ==
    LET i == First({ i \in 1..Len(u) :
                       /\ u[i].email = strip(lower(email))
                       /\ u[i].reset_code = <<code>>
                       /\ u[i].reset_expires # <<>> /\ u[i].reset_expires[1] > t })
        v == IF i = 0 THEN u
             ELSE [u EXCEPT ![i].password_hash = new_hash, ![i].reset_code = <<>>,
                            ![i].reset_expires = <<>>]
    IN  [users |-> v, modified |-> v # u]

Result(ok, err, u, c) == [ok |-> ok, err |-> err, users |-> u, client |-> c]

\* register at time t; code is what generate_code returns, sent says whether
\* send_verification_email gets through
register(u, c, name, email, password, code, reachable, sent, t) ==
    IF Len(password) < 8 THEN Result(FALSE, "Password must be at least 8 characters.", u, c)
    ELSE IF ~(\E k \in 1..Len(email) : email[k] = "@")
    THEN Result(FALSE, "Please enter a valid email address.", u, c)
    ELSE LET cn == connect(c, reachable) IN
    IF ~cn.ok THEN Result(FALSE, "Cannot connect to database.", u, cn.client)
    ELSE LET i == get_user_by_email(u, email) IN
    IF i # 0 THEN
        IF u[i].provider = "google"
        THEN Result(FALSE, "This email is linked to a Google account.", u, cn.client)
        ELSE Result(FALSE, "An account with this email already exists.", u, cn.client)
    ELSE LET created == set_verify_code(
                 create_user(u, name, email, _hash(password), "email", t), email, code)
         IN  IF sent THEN Result(TRUE, "", created, cn.client)
             ELSE Result(FALSE, "Registration failed", created, cn.client)

confirm_verification(u, c, email, code, reachable) ==
    LET cn == connect(c, reachable) IN
    IF ~cn.ok THEN Result(FALSE, "Cannot connect to database.", u, cn.client)
    ELSE LET r == verify_user(u, email, code) IN
         IF ~r.modified
         THEN Result(FALSE, "Invalid or expired code. Please try again.", r.users, cn.client)
         ELSE Result(TRUE, "", r.users, cn.client)

send_forgot_password(u, c, email, code, reachable, sent, t) ==
    LET cn == connect(c, reachable) IN
    IF ~cn.ok THEN Result(FALSE, "Cannot connect to database.", u, cn.client)
    ELSE LET i == get_user_by_email(u, email) IN
    IF i = 0 THEN Result(TRUE, "", u, cn.client)
    ELSE IF u[i].provider = "google"
    THEN Result(FALSE, "This account uses Google login. No password to reset.", u, cn.client)
    ELSE LET v == set_reset_code(u, email, code, t + 15) IN
         IF sent THEN Result(TRUE, "", v, cn.client)
         ELSE Result(FALSE, "Failed to send email. Please try again.", v, cn.client)

confirm_reset(u, c, email, code, new_password, reachable, t) ==
    IF Len(new_password) < 8
    THEN Result(FALSE, "Password must be at least 8 characters.", u, c)
    ELSE LET cn == connect(c, reachable) IN
    IF ~cn.ok THEN Result(FALSE, "Cannot connect to database.", u, cn.client)
    ELSE LET r == reset_password(u, email, code, _hash(new_password), t) IN
         IF ~r.modified
         THEN Result(FALSE, "Invalid or expired reset code. Please request a new one.",
                     r.users, cn.client)
         ELSE Result(TRUE, "", r.users, cn.client)

\* no client yet; the collection holds an account of the Google sign-in
InitEmailAuth ==
    /\ NoModel /\ NoGoogle
    /\ user_info = <<>> /\ credentials = <<>> /\ credentials_file = <<>>
    /\ client = <<>>
    /\ users = <<GoogleDoc>>
    /\ now = 0
    /\ last = [op |-> "none"]
    /\ calls = 0

Register(email, password, code, reachable, sent) ==
    /\ LET r == register(users, client, "Bob", email, password, code, reachable, sent, now)
       IN  /\ users' = r.users
           /\ client' = r.client
           /\ last' = [op |-> "register", email |-> email, code |-> code,
                       password |-> password, ok |-> r.ok, err |-> r.err]
    /\ UNCHANGED <<google, dm, snapshot, K, P, M, calls, user_info, credentials,
                   credentials_file, now>>

ConfirmVerification(email, code, reachable) ==
    /\ LET r == confirm_verification(users, client, email, code, reachable)
       IN  /\ users' = r.users
           /\ client' = r.client
           /\ last' = [op |-> "confirm_verification", email |-> email, code |-> code,
                       password |-> <<>>, ok |-> r.ok, err |-> r.err]
    /\ UNCHANGED <<google, dm, snapshot, K, P, M, calls, user_info, credentials,
                   credentials_file, now>>

SendForgotPassword(email, code, reachable, sent) ==
    /\ LET r == send_forgot_password(users, client, email, code, reachable, sent, now)
       IN  /\ users' = r.users
           /\ client' = r.client
           /\ last' = [op |-> "send_forgot_password", email |-> email, code |-> code,
                       password |-> <<>>, ok |-> r.ok, err |-> r.err]
    /\ UNCHANGED <<google, dm, snapshot, K, P, M, calls, user_info, credentials,
                   credentials_file, now>>

ConfirmReset(email, code, new_password, reachable) ==
    /\ LET r == confirm_reset(users, client, email, code, new_password, reachable, now)
       IN  /\ users' = r.users
           /\ client' = r.client
           /\ last' = [op |-> "confirm_reset", email |-> email, code |-> code,
                       password |-> new_password, ok |-> r.ok, err |-> r.err]
    /\ UNCHANGED <<google, dm, snapshot, K, P, M, calls, user_info, credentials,
                   credentials_file, now>>

Tick ==
    /\ now + TickMinutes <= MaxMinutes
    /\ now' = now + TickMinutes
    /\ last' = [op |-> "tick"]
    /\ UNCHANGED <<google, dm, snapshot, K, P, M, calls, user_info, credentials,
                   credentials_file, client, users>>

\* whether the server can be reached matters only while there is no client
Reachable == IF client = <<>> THEN BOOLEAN ELSE {TRUE}

NextEmailAuth ==
    \/ \E email \in Emails \cup {Em_bad}, password \in {Pw_short, Pw_first},
          code \in Codes, reachable \in Reachable, sent \in BOOLEAN :
          Register(email, password, code, reachable, sent)
    \/ \E email \in Emails, code \in Codes, reachable \in Reachable :
          ConfirmVerification(email, code, reachable)
    \/ \E email \in Emails, code \in Codes, reachable \in Reachable, sent \in BOOLEAN :
          SendForgotPassword(email, code, reachable, sent)
    \/ \E email \in Emails, code \in Codes, new_password \in {Pw_short, Pw_new},
          reachable \in Reachable :
          ConfirmReset(email, code, new_password, reachable)
    \/ Tick

SpecEmailAuth == InitEmailAuth /\ [][NextEmailAuth]_vars

\* C19: confirm_verification succeeds only within 10 minutes of the register
\* that issued the code (create_user stamps that moment as created_at).  The
\* code never looks at the time: verify_user matches on the code alone.
C19_VerifyCodeExpires ==
    (last.op = "confirm_verification" /\ last.ok) =>
        now - users[get_user_by_email(users, last.email)].created_at <= 10

\* the document of an email address, <<>> when there is none
Account(u, email) ==
    IF get_user_by_email(u, email) = 0 THEN <<>>
    ELSE << u[get_user_by_email(u, email)] >>

\* C20: a reset code is valid once and for 15 minutes.  send_forgot_password
\* stores the code it issues with an expiry 15 minutes ahead, replacing any
\* earlier code; confirm_reset succeeds exactly when the code given is the one
\* stored and its expiry lies in the future, and then sets the new hash and
\* clears the code; when it fails nothing is changed; and no other operation
\* touches the stored code or the hash of an existing account.
C20_ResetCodeOnce ==
    [][ LET before == Account(users, last'.email)
            after == Account(users', last'.email)
        IN
        /\ (last'.op = "send_forgot_password" /\ client' # <<>> /\ before # <<>>
              /\ before[1].provider # "google")
             => /\ after[1].reset_code = <<last'.code>>
                /\ after[1].reset_expires = <<now + 15>>
                /\ after[1].password_hash = before[1].password_hash
        /\ last'.op = "confirm_reset"
             => /\ last'.ok <=>
                     /\ Len(last'.password) >= 8 /\ client' # <<>> /\ before # <<>>
                     /\ before[1].reset_code = <<last'.code>>
                     /\ now < before[1].reset_expires[1]
                /\ last'.ok =>
                     /\ after[1].password_hash = _hash(last'.password)
                     /\ after[1].reset_code = <<>>
                /\ ~last'.ok => users' = users
        /\ last'.op \notin {"send_forgot_password", "confirm_reset"}
             => \A i \in 1..Len(users) :
                   /\ users'[i].reset_code = users[i].reset_code
                   /\ users'[i].reset_expires = users[i].reset_expires
                   /\ users'[i].password_hash = users[i].password_hash
      ]_vars

\* a reset that succeeded when ten minutes or more had passed
C20_Witness ==
    /\ last.op = "confirm_reset" /\ last.ok /\ now >= 10
    /\ Account(users, Em_bob) # <<>>
    /\ Account(users, Em_bob)[1].password_hash = _hash(Pw_new)
    /\ Account(users, Em_bob)[1].reset_code = <<>>

\* ---------------------------------------------------------------------------
\* Shape of a condensed matrix
\* ---------------------------------------------------------------------------

\* the Schur complement K_kk - K_kc inv(K_cc) K_ck of k for the released set idx_c
SchurComplement(k, idx_k, idx_c) ==
    Bind(TryInverse(SubMat(k, idx_c, idx_c)), LAMBDA inv :
    Bind(MatMul(inv, SubMat(k, idx_c, idx_k)), LAMBDA X :
    Bind(MatMul(SubMat(k, idx_k, idx_c), X), LAMBDA KX :
        MatSub(SubMat(k, idx_k, idx_k), KX))))

\* the call of the last step released some DOF and its K_cc could be inverted
CondenseSucceeded ==
    /\ last.op = "_condense_matrix"
    /\ last.releases # NoRel
    /\ TryInverse(SubMat(last.k, SelectIdx(last.releases[1] \o last.releases[2], TRUE),
                         SelectIdx(last.releases[1] \o last.releases[2], TRUE))) # <<>>

\* C21: after a _condense_matrix whose K_cc was invertible, the row and the
\* column of every released DOF are zero off the diagonal, the diagonal of a
\* released translational DOF is 0 and that of a released rotational DOF is
\* max|k| * 1e-8, and the kept-by-kept block is the Schur complement with no
\* penalty on any kept DOF
C21_CondensedShape ==
    CondenseSucceeded =>
        LET rel_vec == last.releases[1] \o last.releases[2]
            idx_k == SelectIdx(rel_vec, FALSE)
            idx_c == SelectIdx(rel_vec, TRUE)
            S == SchurComplement(last.k, idx_k, idx_c)
        IN  /\ \A i \in 1..12 : \A j \in 1..12 :
                  (rel_vec[i] \/ rel_vec[j]) =>
                      last.result[i][j] =
                          IF i = j /\ i \in RotDofs
                          THEN RMul(MaxAbs(last.k), PenaltyFactor) ELSE Zero
            /\ \A r \in 1..Len(idx_k) : \A c \in 1..Len(idx_k) :
                  last.result[idx_k[r]][idx_k[c]] = S[r][c]

\* one whole end of the beam released: translational and rotational DOFs at once
C21_Witness ==
    /\ CondenseSucceeded
    /\ last.k = ElementLocalStiffness(Beam)
    /\ last.releases = Rel({}, 1..6)
    /\ last.result[8][8] = Zero /\ last.k[8][8] # Zero
    /\ last.result[12][12] = RMul(MaxAbs(last.k), PenaltyFactor)
    /\ last.result[12][12] # Zero
    /\ last.result[2][2] # last.k[2][2]

\* ---------------------------------------------------------------------------
\* _condense_fef as an operation of its own
\* ---------------------------------------------------------------------------

\* local stiffness matrices: the uncondensed k_raw of two elements, as
\* _add_member_loads passes it, and a matrix that is not symmetric
FefStiffnesses ==
    { ElementLocalStiffness(Beam), ElementLocalStiffness(Column), UpperBidiagonal }

\* local fixed-end force vectors: none, a distributed load, a point load at
\* mid-span, and a vector with twelve different entries
FefVectors ==
    { ZeroVec(12),
      DistributedFEF(<<Q(1), Q(-2), Q(3)>>, Beam.L_clear),
      _get_exact_fef_via_stiffness(Beam.L_clear, RDiv(Beam.L_clear, Q(2)),
                                   <<Zero, Zero, Q(-4)>>, Beam.material, Beam.section),
      Tab(12, LAMBDA i : Q(i)) }

InitCondenseFef ==
    /\ dm = DataModel(<<Beam>>, <<>>, DeadOnly, ListRegistry)
    /\ snapshot = dm
    /\ K = ZeroMat(total_dofs(dm), total_dofs(dm))
    /\ P = ZeroVec(total_dofs(dm))
    /\ M = ZeroMat(total_dofs(dm), total_dofs(dm))
    /\ \E k \in FefStiffnesses : \E f \in FefVectors : \E releases \in CondenseReleases :
           last = [op |-> "input", k_local |-> k, fef_local |-> f, releases |-> releases]
    /\ calls = 0
    /\ NoSession

CondenseFef ==
    /\ last.op = "input"
    /\ last' = [op |-> "_condense_fef", k_local |-> last.k_local,
                fef_local |-> last.fef_local, releases |-> last.releases,
                result |-> _condense_fef(last.k_local, last.fef_local, last.releases)]
    /\ calls' = calls + 1
    /\ UNCHANGED <<dm, snapshot, K, P, M>>
    /\ UNCHANGED session

NextCondenseFef == CondenseFef

SpecCondenseFef == InitCondenseFef /\ [][NextCondenseFef]_vars

\* C22: _condense_fef returns its input when no release flag is set; when some
\* DOF is released and K_cc is invertible every released entry of the result is
\* zero and the kept entries are F_k - K_kc inv(K_cc) F_c; an all-zero input
\* stays all-zero
C22_CondensedFef ==
    last.op = "_condense_fef" =>
        LET rel_vec == last.releases[1] \o last.releases[2]
            idx_k == SelectIdx(rel_vec, FALSE)
            idx_c == SelectIdx(rel_vec, TRUE)
            inv == TryInverse(SubMat(last.k_local, idx_c, idx_c))
        IN  /\ last.releases = NoRel => last.result = last.fef_local
            /\ (last.releases # NoRel /\ inv # <<>>) =>
                  /\ \A i \in 1..12 : rel_vec[i] => last.result[i] = Zero
                  /\ SubVec(last.result, idx_k) =
                         VecSub(SubVec(last.fef_local, idx_k),
                                MatVec(MatMul(SubMat(last.k_local, idx_k, idx_c), inv),
                                       SubVec(last.fef_local, idx_c)))
            /\ last.fef_local = ZeroVec(12) => last.result = ZeroVec(12)

\* the end moment of a pinned end moved to the other end
C22_Witness ==
    /\ last.op = "_condense_fef"
    /\ last.k_local = ElementLocalStiffness(Beam)
    /\ last.releases = Rel({}, {5, 6})
    /\ last.fef_local[12] # Zero /\ last.result[12] = Zero
    /\ last.result[6] # last.fef_local[6]

\* ---------------------------------------------------------------------------
\* The transform of an element in _build_stiffness and in _add_member_loads
\* ---------------------------------------------------------------------------

\* insertion-point offsets: none; the same at both ends; different along the
\* member axis; different so that the axis between the insertion points is
\* perpendicular to the line between the nodes
TransformOffsets ==
    { NoOffsets, <<V(0, 0, 1), V(0, 0, 1)>>, <<V(0, 1, 0), V(0, 1, 0)>>,
      <<V(1, 0, 0), V(0, 0, 0)>>, <<V(0, 0, 0), V(0, 0, -1)>>,
      <<V(0, 0, 0), V(-2, 0, 2)>>, <<V(0, 0, 0), V(2, 0, -2)>> }

\* elements between every pair of neighbouring nodes, with every roll angle and
\* with and without rigid ends, whose axis is axis-parallel with and without the
\* offsets
TransformElements ==
    { el \in { Elem(1, n[1], n[2], SecSlender, NoRel, offs, r, r, beta) :
                 n \in { <<0, 1>>, <<1, 2>>, <<2, 1>> }, offs \in TransformOffsets,
                 r \in { Zero, Half }, beta \in 0..3 } :
        AxisParallel(VecAdd(Nodes[el.node_indices[1] + 1].coords, el.offsets[1]),
                     VecAdd(Nodes[el.node_indices[2] + 1].coords, el.offsets[2])) }

InitTransform ==
    /\ \E el \in TransformElements : dm = DataModel(<<el>>, <<>>, DeadOnly, ListRegistry)
    /\ snapshot = dm
    /\ K = ZeroMat(total_dofs(dm), total_dofs(dm))
    /\ P = ZeroVec(total_dofs(dm))
    /\ M = ZeroMat(total_dofs(dm), total_dofs(dm))
    /\ last = [op |-> "none"]
    /\ calls = 0
    /\ NoSession

\* one pass of each loop over the element: the T_total each of them builds
BuildTransforms ==
    /\ calls = 0
    /\ last' = [op |-> "transforms",
                T_stiffness |-> StiffnessTransform(dm, dm.elements[1]),
                T_load |-> LoadTransform(dm, dm.elements[1])]
    /\ calls' = 1
    /\ UNCHANGED <<dm, snapshot, K, P, M>>
    /\ UNCHANGED session

NextTransform == BuildTransforms

SpecTransform == InitTransform /\ [][NextTransform]_vars

\* C23: the T that takes an element's member-load FEF to global axes is the
\* T = T_ecc * T_rot of its stiffness.  _add_member_loads computes the rotation
\* from the node coordinates, _build_stiffness from the node coordinates plus the
\* offsets, so the two differ when the offsets turn the axis.
C23_SameTransform ==
    last.op = "transforms" => last.T_load = last.T_stiffness

\* C24: M is lumped and translational-only: every off-diagonal entry is zero,
\* every diagonal entry of a rotational DOF is zero, and the three translational
\* diagonal entries of a node are equal
C24_LumpedTranslational ==
    /\ \A r \in 1..Len(M) : \A c \in 1..Len(M) : r # c => M[r][c] = Zero
    /\ \A r \in 1..Len(M) : (r - 1) % 6 >= 3 => M[r][r] = Zero
    /\ \A n \in 0..(Len(M) \div 6 - 1) :
          M[6 * n + 1][6 * n + 1] = M[6 * n + 2][6 * n + 2]
          /\ M[6 * n + 2][6 * n + 2] = M[6 * n + 3][6 * n + 3]

\* two calls have put different masses on two nodes, from self-mass and from loads
C24_Witness ==
    /\ calls = 2 /\ last.op = "build_mass_matrix" /\ last.status = "ok"
    /\ last.arg = "Both" /\ ~last.M_in_empty
    /\ M[1][1] # Zero /\ M[7][7] # M[1][1] /\ M[13][13] # M[7][7]
    /\ \E r \in 1..Len(last.F_accum) : last.F_accum[r] # Zero

\* ---------------------------------------------------------------------------
\* The global force of a member-point load in the two assemblers
\* ---------------------------------------------------------------------------

\* the global force _add_member_loads works with: P_local taken back to global
\* axes, nothing when the direction cannot be parsed and the load is skipped
AssemblerPointForce(d, el, load, scale) ==
    Bind(_parse_load_direction(load.dir), LAMBDA parsed :
        IF parsed = <<>> THEN ZeroVec(3)
        ELSE MatVec(Transpose(LoadRotation(d, el)),
                    PointLocalLoad(load, scale, parsed[1], LoadRotation(d, el))))

PointForceDirections ==
    { Str_Gravity, Str_gravity, Str_GRAVITY, Str_X, <<"x">>, Str_y, <<"Z">>,
      <<"1">>, Str_2, <<"3">>, Str_Q }

\* a point load at mid-span of the column, in a pattern of scale 2 or of scale -1
InitPointForce ==
    /\ \E dir \in PointForceDirections : \E coord \in {"Global", "Local"} :
       \E force \in {Q(4), Q(-4)} : \E pat \in {"DEAD", "LIVE"} :
           dm = DataModel(<<Beam, Column>>,
                          << Point(pat, 2, force, dir, coord, Half, TRUE) >>,
                          DeadAndLive, ListRegistry)
    /\ snapshot = dm
    /\ K = ZeroMat(total_dofs(dm), total_dofs(dm))
    /\ P = ZeroVec(total_dofs(dm))
    /\ M = ZeroMat(total_dofs(dm), total_dofs(dm))
    /\ last = [op |-> "none"]
    /\ calls = 0
    /\ NoSession

\* the load as each assembler takes it, both with the scale of its pattern
PointForces ==
    /\ calls = 0
    /\ LET load == dm.loads[1]
           el == FindElement(dm, load.element_id)[1]
           active == ActivePatterns(dm)
       IN  last' = [op |-> "point_force",
                    mass_i |-> MassLoadForce(dm, active, load, el.node_indices[1]),
                    mass_j |-> MassLoadForce(dm, active, load, el.node_indices[2]),
                    load_force |-> AssemblerPointForce(dm, el, load,
                                                       DictGet(active, load.pattern))]
    /\ calls' = 1
    /\ UNCHANGED <<dm, snapshot, K, P, M>>
    /\ UNCHANGED session

NextPointForce == PointForces

SpecPointForce == InitPointForce /\ [][NextPointForce]_vars

\* C25: the global force the mass assembler distributes to the two end nodes
\* of a member-point load is the global force the load assembler derives for
\* it, and a direction containing "gravity" in any letter case is a pure -Z force
\* in both.  The mass assembler has its own direction handling, which differs.
C25_SamePointForce ==
    last.op = "point_force" => VecAdd(last.mass_i, last.mass_j) = last.load_force

\* ---------------------------------------------------------------------------
\* Email login
\* ---------------------------------------------------------------------------

\* bcrypt.checkpw: the password hashes to the stored hash
_check(password, hashed) == _hash(password) = hashed

update_last_login(u, email, t) ==
    LET i == get_user_by_email(u, email) IN
    IF i = 0 THEN u ELSE [u EXCEPT ![i].last_login = <<t>>]

LoginResult(ok, err, data, u, c) ==
    [ok |-> ok, err |-> err, data |-> data, users |-> u, client |-> c]

\* variant of login that lets an unverified account in
email_login_unverified(u, c, email, password, reachable, t) ==
    LET cn == connect(c, reachable) IN
    IF ~cn.ok
    THEN LoginResult(FALSE, "Cannot connect to database. Check your internet connection.",
                     <<>>, u, cn.client)
    ELSE LET i == get_user_by_email(u, email) IN
    IF i = 0 THEN LoginResult(FALSE, "No account found with this email.", <<>>, u, cn.client)
    ELSE IF u[i].provider = "google"
    THEN LoginResult(FALSE, "This email is linked to a Google account. Use Google login.",
                     <<>>, u, cn.client)
    ELSE IF ~_check(password, u[i].password_hash)
    THEN LoginResult(FALSE, "Incorrect password.", <<>>, u, cn.client)
    ELSE LoginResult(TRUE, "",
                     << [name |-> u[i].name, email |-> u[i].email, picture |-> "",
                         provider |-> "email"] >>,
                     update_last_login(u, email, t), cn.client)

\* email_auth.login at time t: (success, error_message, user_info_or_None)
email_login(u, c, email, password, reachable, t) ==
    LET cn == connect(c, reachable) IN
    IF ~cn.ok
    THEN LoginResult(FALSE, "Cannot connect to database. Check your internet connection.",
                     <<>>, u, cn.client)
    ELSE LET i == get_user_by_email(u, email) IN
    IF i = 0 THEN LoginResult(FALSE, "No account found with this email.", <<>>, u, cn.client)
    ELSE IF u[i].provider = "google"
    THEN LoginResult(FALSE, "This email is linked to a Google account. Use Google login.",
                     <<>>, u, cn.client)
    ELSE IF ~_check(password, u[i].password_hash)
    THEN LoginResult(FALSE, "Incorrect password.", <<>>, u, cn.client)
    ELSE IF ~u[i].verified
    THEN LoginResult(FALSE, "Please verify your email first. Check your inbox.",
                     <<>>, u, cn.client)
    ELSE LoginResult(TRUE, "",
                     << [name |-> u[i].name, email |-> u[i].email, picture |-> "",
                         provider |-> "email"] >>,
                     update_last_login(u, email, t), cn.client)

EmailLogin(email, password, reachable) ==
    /\ LET r == email_login(users, client, email, password, reachable, now)
       IN  /\ users' = r.users
           /\ client' = r.client
           /\ last' = [op |-> "email_login", email |-> email, code |-> <<>>,
                       password |-> password, ok |-> r.ok, err |-> r.err,
                       data |-> r.data]
    /\ UNCHANGED <<google, dm, snapshot, K, P, M, calls, user_info, credentials,
                   credentials_file, now>>

NextEmailLogin ==
    \/ \E email \in Emails, code \in Codes, reachable \in Reachable, sent \in BOOLEAN :
          Register(email, Pw_first, code, reachable, sent)
    \/ \E email \in Emails, code \in Codes, reachable \in Reachable :
          ConfirmVerification(email, code, reachable)
    \/ \E email \in Emails \cup {Em_bad}, password \in {Pw_first, Pw_new},
          reachable \in Reachable :
          EmailLogin(email, password, reachable)
    \/ Tick

SpecEmailLogin == InitEmailAuth /\ [][NextEmailLogin]_vars

Emit(sig, name, arg) == Append(sig, [name |-> name, arg |-> arg])

\* the thread after a step: where run() stands, its local credentials
Thread(pc, cr) == [pc |-> pc, credentials |-> cr]

\* what the user-info endpoint can answer with
ProfileFull == [name |-> <<"Ada">>, email |-> <<"ada@x.org">>, picture |-> <<"a.png">>]
ProfileEmailOnly == [email |-> <<"cy@x.org">>]
ProfileNoEmail == [name |-> <<"Ada">>, picture |-> <<"a.png">>]
Profiles == {ProfileFull, ProfileEmailOnly, ProfileNoEmail}

\* user_info['credentials'] = credentials
WithCredentials(u, cr) ==
    [k \in DOMAIN u \cup {"credentials"} |-> IF k = "credentials" THEN cr ELSE u[k]]

\* lines 23-30: GoogleAuthConfig.validate()
run_validate(sig, config_ok) ==
    IF ~config_ok
    THEN [thread |-> Thread("done", <<>>),
          signals |-> Emit(sig, "auth_failed", "Missing Google OAuth configuration.")]
    ELSE [thread |-> Thread("flow", <<>>),
          signals |-> Emit(sig, "auth_progress", "Preparing authentication")]

\* lines 32-37: InstalledAppFlow.from_client_config, which may raise
run_flow(sig, flow_ok) ==
    IF ~flow_ok
    THEN [thread |-> Thread("done", <<>>),
          signals |-> Emit(sig, "auth_failed", "Authentication failed: client config")]
    ELSE [thread |-> Thread("oauth", <<>>),
          signals |-> Emit(sig, "auth_progress", "Opening browser")]

OAuthOutcomes == {"credentials", "scope_changed_credentials", "scope_changed", "error"}

\* variant of the OAuth step that does not return after the scope-mismatch failure
run_oauth_no_return(sig, outcome) ==
    IF outcome = "error"
    THEN [thread |-> Thread("done", <<>>),
          signals |-> Emit(sig, "auth_failed", "Authentication failed: access_denied")]
    ELSE IF outcome = "scope_changed"
    THEN [thread |-> Thread("profile", <<>>),
          signals |-> Emit(Emit(sig, "auth_failed", "OAuth scope mismatch."),
                           "auth_progress", "Fetching your profile")]
    ELSE [thread |-> Thread("profile", <<FlowCredentials>>),
          signals |-> Emit(sig, "auth_progress", "Fetching your profile")]

\* lines 39-60: flow.run_local_server returns the credentials or raises; after
\* "Scope has changed" the credentials of the flow are used if there are any
run_oauth(sig, outcome) ==
    IF outcome = "error"
    THEN [thread |-> Thread("done", <<>>),
          signals |-> Emit(sig, "auth_failed", "Authentication failed: access_denied")]
    ELSE IF outcome = "scope_changed"
    THEN [thread |-> Thread("done", <<>>),
          signals |-> Emit(sig, "auth_failed", "OAuth scope mismatch.")]
    ELSE [thread |-> Thread("profile", <<FlowCredentials>>),
          signals |-> Emit(sig, "auth_progress", "Fetching your profile")]

\* the request fails, the status is an error, the body is no JSON, or a profile
ProfileOutcomes ==
    { [kind |-> k, json |-> <<>>] : k \in {"network_error", "http_error", "bad_json"} }
    \cup { [kind |-> "ok", json |-> <<p>>] : p \in Profiles }

\* lines 62-75: the profile request; credentials.token of credentials that are
\* None raises AttributeError
run_profile(th, sig, outcome) ==
    IF th.credentials = <<>>
    THEN [thread |-> Thread("done", th.credentials),
          signals |-> Emit(sig, "auth_failed", "Authentication failed: no attribute token")]
    ELSE IF outcome.kind = "network_error"
    THEN [thread |-> Thread("done", th.credentials),
          signals |-> Emit(sig, "auth_failed", "Network error: timed out")]
    ELSE IF outcome.kind = "http_error"
    THEN [thread |-> Thread("done", th.credentials),
          signals |-> Emit(sig, "auth_failed", "Network error: 401")]
    ELSE IF outcome.kind = "bad_json"
    THEN [thread |-> Thread("done", th.credentials),
          signals |-> Emit(sig, "auth_failed", "Expecting value")]
    ELSE IF "email" \notin DOMAIN outcome.json[1]
    THEN [thread |-> Thread("done", th.credentials),
          signals |-> Emit(sig, "auth_failed", "Google did not return an email address.")]
    ELSE [thread |-> Thread("done", th.credentials),
          signals |-> Emit(sig, "auth_complete", WithCredentials(outcome.json[1], th.credentials))]

\* the dialog is open, no thread has been started
InitGoogle ==
    /\ NoModel
    /\ user_info = <<>> /\ credentials = <<>> /\ credentials_file = <<>>
    /\ client = <<>> /\ users = <<>> /\ now = 0
    /\ thread = <<>>
    /\ signals = <<>>
    /\ login_dialog = [enabled |-> TRUE, status |-> "", error |-> FALSE,
                       user_info |-> <<>>, remember_me |-> FALSE,
                       chk_remember |-> FALSE, accepting |-> FALSE, delivered |-> 0]
    /\ last = [op |-> "none"]
    /\ calls = 0

StayGoogle ==
    UNCHANGED <<dm, snapshot, K, P, M, last, calls, user_info, credentials,
                credentials_file, client, users, now>>

\* _on_google_login: the button can be clicked while it is enabled
OnGoogleLogin ==
    /\ login_dialog.enabled
    /\ thread' = Thread("validate", <<>>)
    /\ signals' = <<>>
    /\ login_dialog' = [login_dialog EXCEPT !.enabled = FALSE,
                           !.status = "Opening browser", !.error = FALSE,
                           !.delivered = 0]
    /\ StayGoogle

RunValidate(config_ok) ==
    /\ thread # <<>> /\ thread.pc = "validate"
    /\ thread' = run_validate(signals, config_ok).thread
    /\ signals' = run_validate(signals, config_ok).signals
    /\ UNCHANGED login_dialog
    /\ StayGoogle

RunFlow(flow_ok) ==
    /\ thread # <<>> /\ thread.pc = "flow"
    /\ thread' = run_flow(signals, flow_ok).thread
    /\ signals' = run_flow(signals, flow_ok).signals
    /\ UNCHANGED login_dialog
    /\ StayGoogle

RunOAuth(outcome) ==
    /\ thread # <<>> /\ thread.pc = "oauth"
    /\ thread' = run_oauth(signals, outcome).thread
    /\ signals' = run_oauth(signals, outcome).signals
    /\ UNCHANGED login_dialog
    /\ StayGoogle

RunProfile(outcome) ==
    /\ thread # <<>> /\ thread.pc = "profile"
    /\ thread' = run_profile(thread, signals, outcome).thread
    /\ signals' = run_profile(thread, signals, outcome).signals
    /\ UNCHANGED login_dialog
    /\ StayGoogle

\* the signal the event loop of the dialog hands to a slot next
Pending(name) ==
    /\ login_dialog.delivered < Len(signals)
    /\ signals[login_dialog.delivered + 1].name = name

OnAuthProgress ==
    /\ Pending("auth_progress")
    /\ login_dialog' = [login_dialog EXCEPT
                           !.status = signals[login_dialog.delivered + 1].arg,
                           !.error = FALSE, !.delivered = @ + 1]
    /\ UNCHANGED <<thread, signals>>
    /\ StayGoogle

OnAuthComplete ==
    /\ Pending("auth_complete")
    /\ login_dialog' = [login_dialog EXCEPT
                           !.user_info = << signals[login_dialog.delivered + 1].arg >>,
                           !.remember_me = login_dialog.chk_remember,
                           !.status = "Welcome", !.error = FALSE,
                           !.accepting = TRUE, !.delivered = @ + 1]
    /\ UNCHANGED <<thread, signals>>
    /\ StayGoogle

OnAuthFailed ==
    /\ Pending("auth_failed")
    /\ login_dialog' = [login_dialog EXCEPT
                           !.enabled = TRUE,
                           !.status = signals[login_dialog.delivered + 1].arg,
                           !.error = TRUE, !.delivered = @ + 1]
    /\ UNCHANGED <<thread, signals>>
    /\ StayGoogle

\* the user ticks or clears "Remember me"
ToggleRemember ==
    /\ ~login_dialog.accepting
    /\ login_dialog' = [login_dialog EXCEPT !.chk_remember = ~@]
    /\ UNCHANGED <<thread, signals>>
    /\ StayGoogle

NextGoogle ==
    \/ OnGoogleLogin
    \/ \E config_ok \in BOOLEAN : RunValidate(config_ok)
    \/ \E flow_ok \in BOOLEAN : RunFlow(flow_ok)
    \/ \E outcome \in OAuthOutcomes : RunOAuth(outcome)
    \/ \E outcome \in ProfileOutcomes : RunProfile(outcome)
    \/ OnAuthProgress
    \/ OnAuthComplete
    \/ OnAuthFailed
    \/ ToggleRemember

SpecGoogle == InitGoogle /\ [][NextGoogle]_vars

Terminal(i) == signals[i].name \in {"auth_complete", "auth_failed"}

\* C27: a run of the thread emits at most one terminal signal (auth_complete
\* or auth_failed), has emitted exactly one when it has finished, emits nothing
\* after it, and an auth_complete carries an email and the credentials
C27_OneTerminalSignal ==
    thread # <<>> =>
        /\ Cardinality({ i \in 1..Len(signals) : Terminal(i) }) =
               (IF thread.pc = "done" THEN 1 ELSE 0)
        /\ \A i \in 1..Len(signals) : Terminal(i) => i = Len(signals)
        /\ \A i \in 1..Len(signals) :
              signals[i].name = "auth_complete" =>
                  /\ "email" \in DOMAIN signals[i].arg
                  /\ signals[i].arg.credentials = <<FlowCredentials>>

\* a run has gone through all its steps while the dialog still shows the first
\* progress message, with "Remember me" ticked
C27_Witness ==
    /\ thread # <<>> /\ thread.pc = "done"
    /\ Len(signals) = 4
    /\ signals[4].name = "auth_complete"
    /\ signals[4].arg = GoogleUserInfo
    /\ login_dialog.delivered = 1 /\ login_dialog.chk_remember

\* ---------------------------------------------------------------------------
\* The session after login() has returned
\* ---------------------------------------------------------------------------

\* C28: whenever login() returns True, is_authenticated() is True right after,
\* on the auto-login path and on the dialog path, for Google accounts and for
\* email/password accounts.  An email account has no credentials, and
\* is_authenticated() asks for credentials.
C28_LoginAuthenticates ==
    (last.op = "login" /\ last.ret) => is_authenticated(user_info, credentials)

get_user_name(ui) == IF ui # <<>> THEN Get(ui[1], "name", <<>>) ELSE <<>>

get_user_email(ui) == IF ui # <<>> THEN Get(ui[1], "email", <<>>) ELSE <<>>

get_user_picture(ui) == IF ui # <<>> THEN Get(ui[1], "picture", <<>>) ELSE <<>>

\* C29: whenever login() returns False the manager holds no session: user_info
\* and credentials are None and the three getters return None, also when a
\* saved file was read and rejected before the dialog was cancelled.
\* _load_saved_credentials assigns user_info before it rejects the credentials.
C29_FailedLoginNoSession ==
    (last.op = "login" /\ ~last.ret) =>
        /\ user_info = <<>> /\ credentials = <<>>
        /\ get_user_name(user_info) = <<>>
        /\ get_user_email(user_info) = <<>>
        /\ get_user_picture(user_info) = <<>>

\* ---------------------------------------------------------------------------
\* What a failed register leaves behind
\* ---------------------------------------------------------------------------

\* C30: register is all-or-nothing: when it returns failure the call has
\* created no user record, and when it returns success an unverified account
\* of provider "email" with a stored verify code exists.  The code creates the
\* record before it sends the email and does not take it back when that fails.
C30_RegisterAllOrNothing ==
    [][ last'.op = "register" =>
            LET after == Account(users', last'.email) IN
            /\ ~last'.ok => users' = users
            /\ last'.ok =>
                  /\ after # <<>>
                  /\ after[1].provider = "email"
                  /\ ~after[1].verified
                  /\ after[1].verify_code = <<last'.code>>
      ]_vars
====
